---------------------------- MODULE Spec2Model ----------------------------
(***************************************************************************)
(* Model of the EEG segmentation pipeline of EEG_DataProcessor:            *)
(*   - EdfSegmentor.clean_event_name      (annotation text -> label)       *)
(*   - EdfSegmentor.create_block_csv(s)   (annotation timeline -> CSV)     *)
(*   - EdfSegmentor.export_blocks         (CSV -> segment files)           *)
(*   - EdfSegmentor.split_edf_into_subblocks (segment -> fixed blocks)     *)
(*   - HDF5Manager.add_subblocks_to_hdf5  (blocks -> grouped store)        *)
(*   - make_h5.process_subblocks          (block files -> store calls)     *)
(*   - main.process_edfs                  (download, checksum, stages)     *)
(*   - edf_filters.sigma_3_filter         (3-sigma mask and interpolation) *)
(*   - atar_with_3_sigma                  (window loop around ATAR)        *)
(*                                                                         *)
(* Texts are sequences of chunks.  A chunk is a run of characters that the *)
(* code never looks inside: one bracket, one blank, or one phrase.  The    *)
(* Russian phrases of the source are written in Latin transliteration,     *)
(* e.g. "Fonovaya zapis" for the first key of TRANSLATIONS.  No phrase of  *)
(* the tables is a substring of another phrase, so "ru_name in text" is    *)
(* "the chunk ru_name occurs in the chunk sequence".                       *)
(***************************************************************************)
EXTENDS Integers, Sequences, FiniteSets, TLC

VARIABLES
    component,      \* which entry point this run exercises
    \* ---- clean_event_name called on its own
    name,           \* the raw annotation text
    clean_result,   \* what clean_event_name returned ("pending" before the call)
    \* ---- EdfSegmentor: create_block_csvs / export_blocks
    files,          \* the .edf files of input_dir, in os.listdir order
    seg_pc,         \* position in create_block_csvs / export_blocks
    file_no,        \* 1-based position in the directory listing
    i, j,           \* the two scan indices of create_block_csv
    blocks,         \* the list `blocks` of create_block_csv
    segs,           \* per file: `blocks` as it stood when the CSV was written
    csv,            \* per file: the rows of <base>_segments.csv (<<>> + header only)
    csv_written,    \* per file: whether the CSV exists
    exported,       \* per file: the segment files written by export_block
    skipped,        \* per file: export_blocks skipped it (empty CSV)
    \* ---- EdfSegmentor.split_edf_into_subblocks
    split_pc, n_times, sfreq, block_ms, current_time, block_index, sub_blocks,
    \* ---- HDF5Manager.add_subblocks_to_hdf5
    hdf_pc,         \* position in add_subblocks_to_hdf5
    hdf_file,       \* the content of <diagnosis>_<block_type>.h5
    call,           \* the arguments of the call in progress (or of the last one)
    new_data,       \* the local new_data of the call
    updated_sources, \* the local updated_sources of the call
    pre,            \* hdf_file as it was when the call began
    ncalls,         \* calls made so far
    last_ok,        \* the last call returned (FALSE: it raised)
    \* ---- process_subblocks
    ps_pc,          \* position in process_subblocks
    folders,        \* the entries of subblocks_dir, in os.listdir order
    folder_no,      \* 1-based position in that listing
    ps_file_no,     \* 1-based position in the listing of the patient folder
    appended,       \* the add_subblocks_to_hdf5 calls made so far
    \* ---- main.process_edfs / process_single_target
    tg_pc,          \* position in process_edfs / process_single_target
    targets,        \* the rows of targets.csv, with what the storage holds
    target_no,      \* 1-based position in targets
    overwrite_downloads, \* config['storage']['overwrite_downloads']
    local_files,    \* edf_dir: file name -> content (<<>>: no such file)
    stage_log,      \* the stages run so far, each with the content it read
    \* ---- edf_filters.sigma_3_filter, the 3-sigma step on one segment
    sig_pc,         \* position in the body of the segment loop
    raw_data,       \* the samples of the segment in raw, one sequence per channel
    sig_data,       \* the array `data`, changed in place
    mask,           \* the array `mask`
    ch,             \* the channel index of the interpolation loop
    \* ---- atar_with_3_sigma.py, the window loop on one segment
    at_pc,          \* position in the window loop
    at_data,        \* the array `data` after the 3-sigma step, in microvolts
    window_size,    \* int(sfreq * window_size_sec)
    w,              \* the window index
    data_cleaned,   \* the array `data_cleaned`
    atar_calls,     \* the ATAR calls made so far, as <<window, channel>>
    \* ---- EdfPreprocessor.preprocess_raw
    prep_pc,            \* preprocess_raw: the stage that runs next
    heap,               \* the Recording objects, by identity
    arg,                \* identity of the recording passed to the last stage
    before,             \* that recording as it was when the stage was called
    returned,           \* identity of the recording the last stage returned
    \* ---- the file names from export_block to process_subblocks
    nm_pc,              \* which step names the file next
    nm_label,           \* the canonical label of the segment
    nm_base,            \* base_filename of the recording
    nm_path,            \* the name of the segment file, then of the block file
    nm_block_type,      \* block_type as process_subblocks reads it
    \* ---- the two Block Splitters side by side, in double arithmetic
    fs_pc,              \* which of the two loops runs
    fs_n_times,         \* raw.n_times of the segment
    fs_block_ms,        \* the configured block duration, in ms
    fs_current_time,    \* current_time of the loop that runs
    fs_sub_blocks,      \* the blocks of EdfSegmentor.split_edf_into_subblocks
    fs_subblocks        \* the blocks of block_split.split_edf_into_subblocks

clean_vars == <<name, clean_result>>
seg_vars   == <<files, seg_pc, file_no, i, j, blocks, segs, csv, csv_written, exported, skipped>>
split_vars == <<split_pc, n_times, sfreq, block_ms, current_time, block_index, sub_blocks>>
hdf_vars   == <<hdf_pc, hdf_file, call, new_data, updated_sources, pre, ncalls, last_ok>>
ps_vars    == <<ps_pc, folders, folder_no, ps_file_no, appended>>
tg_vars    == <<tg_pc, targets, target_no, overwrite_downloads, local_files, stage_log>>
sig_vars   == <<sig_pc, raw_data, sig_data, mask, ch>>
at_vars    == <<at_pc, at_data, window_size, w, data_cleaned, atar_calls>>
prep_vars  == <<prep_pc, heap, arg, before, returned>>
nm_vars    == <<nm_pc, nm_label, nm_base, nm_path, nm_block_type>>
fs_vars    == <<fs_pc, fs_n_times, fs_block_ms, fs_current_time, fs_sub_blocks, fs_subblocks>>
vars == <<component, clean_vars, seg_vars, split_vars, hdf_vars, ps_vars, tg_vars, sig_vars, at_vars, prep_vars, nm_vars, fs_vars>>

(***************************************************************************)
(* Bounds of the model.                                                    *)
(***************************************************************************)
MaxTextLen == 4     \* chunks in an annotation text given to clean_event_name
MaxAnn     == 3     \* annotations in an enumerated recording
MaxFiles   == 2     \* recordings in a batch
MaxSamples == 12    \* length of an enumerated segment, in samples
MaxCalls   == 3     \* add_subblocks_to_hdf5 calls in one run
MaxBlocks  == 8     \* blocks emitted from one segment

(***************************************************************************)
(* Generic helpers.                                                        *)
(***************************************************************************)
Min2(a, b) == IF a <= b THEN a ELSE b

RECURSIVE SumSeq(_)
SumSeq(s) == IF s = <<>> THEN 0 ELSE Head(s) + SumSeq(Tail(s))

\* Sequences over S of length 0..n
SeqsUpTo(S, n) == UNION {[1..k -> S] : k \in 0..n}

\* Python `p in t` for strings, on chunk sequences
Contains(t, p) == \E k \in 0..(Len(t) - Len(p)) : SubSeq(t, k + 1, k + Len(p)) = p

(***************************************************************************)
(* EdfSegmentor.TRANSLATIONS: an insertion-ordered dict, iterated in that  *)
(* order by clean_event_name.                                              *)
(***************************************************************************)
TRANSLATIONS == <<
    << <<"Fonovaya zapis">>,                  <<"Baseline">>      >>,
    << <<"Otkryvanie glaz">>,                 <<"EyesOpen">>      >>,
    << <<"Zakryvanie glaz">>,                 <<"EyesClosed">>    >>,
    << <<"Bez stimulyatsii">>,                <<"AfterStim">>     >>,
    << <<"Fotostimulyatsiya">>,               <<"PhoticStim">>    >>,
    << <<"Posle fotostimulyatsii">>,          <<"PostPhotic">>    >>,
    << <<"Vstroennyi fotostimulyator">>,      <<"Photic">>        >>,
    << <<"Vstroennyi slukhovoi stimulyator">>, <<"Auditory">>     >>,
    << <<"Ostanovka stimulyatsii">>,          <<"AfterStim">>     >>,
    << <<"Giperventilyatsiya">>,              <<"Hypervent">>     >>,
    << <<"Posle giperventilyatsii">>,         <<"PostHypervent">> >>,
    << <<"Bodrstvovanie">>,                   <<"Awake">>         >> >>

EXCLUDED_NAMES == {
    <<"stimFlash">>,
    <<"stimAudio">>,
    <<"Artefakt">>,
    <<"Nachalo pechati">>,
    <<"Okonchanie pechati">>,
    <<"Epileptiformnaya aktivnost">>,
    <<"Kompleks \"ostraya volna - medlennaya volna\"">>,
    <<"Mnozhestvennye spaiki i ostrye volny">>,
    <<"Razryv zapisi">> }

\* Python's None, as returned by clean_event_name; not a text of the model
None == <<"<None>">>

(***************************************************************************)
(* re.sub(r"\[.*?\]|\(.*?\)", "", name): scanning from the left, a "["     *)
(* with a later "]" is removed up to the first such "]", a "(" with a      *)
(* later ")" up to the first such ")"; anything else is kept.              *)
(***************************************************************************)
FirstIndexOf(s, c) == CHOOSE k \in 1..Len(s) : s[k] = c /\ \A m \in 1..(k - 1) : s[m] # c

RECURSIVE re_sub(_)
re_sub(s) ==
    IF s = <<>> THEN <<>>
    ELSE LET rest == Tail(s) IN
         IF Head(s) = "[" /\ \E k \in 1..Len(rest) : rest[k] = "]"
           THEN re_sub(SubSeq(rest, FirstIndexOf(rest, "]") + 1, Len(rest)))
         ELSE IF Head(s) = "(" /\ \E k \in 1..Len(rest) : rest[k] = ")"
           THEN re_sub(SubSeq(rest, FirstIndexOf(rest, ")") + 1, Len(rest)))
         ELSE <<Head(s)>> \o re_sub(rest)

\* str.strip(): blanks removed at both ends
RECURSIVE lstrip(_)
lstrip(s) == IF s # <<>> /\ Head(s) = " " THEN lstrip(Tail(s)) ELSE s

RECURSIVE rstrip(_)
rstrip(s) == IF s # <<>> /\ s[Len(s)] = " " THEN rstrip(SubSeq(s, 1, Len(s) - 1)) ELSE s

strip(s) == rstrip(lstrip(s))

\* the for loop over TRANSLATIONS.items(), from entry k on
RECURSIVE translate_from(_, _)
translate_from(cleaned_name, k) ==
    IF k > Len(TRANSLATIONS) THEN cleaned_name
    ELSE IF Contains(cleaned_name, TRANSLATIONS[k][1]) THEN TRANSLATIONS[k][2]
    ELSE translate_from(cleaned_name, k + 1)

\* a faulty loop that lets the last matching entry win
RECURSIVE translate_last_from(_, _)
translate_last_from(cleaned_name, k) ==
    IF k < 1 THEN cleaned_name
    ELSE IF Contains(cleaned_name, TRANSLATIONS[k][1]) THEN TRANSLATIONS[k][2]
    ELSE translate_last_from(cleaned_name, k - 1)

translate_mutant(cleaned_name) == translate_last_from(cleaned_name, Len(TRANSLATIONS))

translate(cleaned_name) == translate_from(cleaned_name, 1)

clean_event_name(nm) ==
    LET cleaned_name == strip(re_sub(nm)) IN
    IF cleaned_name \in EXCLUDED_NAMES \/ nm \in EXCLUDED_NAMES THEN None
    ELSE translate(cleaned_name)

(***************************************************************************)
(* Times of the segmenter are integers in microseconds.                    *)
(***************************************************************************)
USEC == 1000 * 1000

\* one sample period; the recordings of the model are sampled at 250 Hz,
\* so that it is a whole number of microseconds (4000)
sample_period(raw) == USEC \div raw.sfreq

\* raw.n_times / raw.info["sfreq"]
total_duration(raw) == raw.n_times * sample_period(raw)

\* raw.times[-1]
last_time(raw) == (raw.n_times - 1) * sample_period(raw)

\* seconds_to_min_sec_ms: the three int() fields that the f-string prints
seconds_to_min_sec_ms(seconds) ==
    [minutes      |-> seconds \div (60 * USEC),
     secs         |-> (seconds % (60 * USEC)) \div USEC,
     milliseconds |-> (seconds % USEC) \div 1000]

\* a faulty formatter that rounds the milliseconds up
seconds_to_min_sec_ms_mutant(seconds) ==
    [minutes      |-> seconds \div (60 * USEC),
     secs         |-> (seconds % (60 * USEC)) \div USEC,
     milliseconds |-> ((seconds % USEC) + 999) \div 1000]

\* time_str_to_seconds
time_str_to_seconds(time_str) ==
    time_str.minutes * 60 * USEC + time_str.secs * USEC + time_str.milliseconds * 1000

\* the list comprehension of csv.writer rows in create_block_csv
csv_rows(blks) ==
    [k \in 1..Len(blks) |->
        [name     |-> blks[k].name,
         start    |-> seconds_to_min_sec_ms(blks[k].start),
         duration |-> seconds_to_min_sec_ms(blks[k].duration)]]

\* block_name.replace(" ", "_").replace("(", "").replace(")", "")
RECURSIVE safe_name(_)
safe_name(s) ==
    IF s = <<>> THEN <<>>
    ELSE IF Head(s) = " " THEN <<"_">> \o safe_name(Tail(s))
    ELSE IF Head(s) \in {"(", ")"} THEN safe_name(Tail(s))
    ELSE <<Head(s)>> \o safe_name(Tail(s))

(***************************************************************************)
(* create_block_csv, lines 123-146: `end` and the appended tuple.  i and j *)
(* are the 0-based indices of the code.                                    *)
(***************************************************************************)
segment_end_mutant(raw, jj) ==
    IF jj + 1 < Len(raw.onsets) THEN raw.onsets[jj + 2] ELSE total_duration(raw)

segment_end(raw, jj) ==
    IF jj < Len(raw.onsets) THEN raw.onsets[jj + 1] ELSE total_duration(raw)

cur == files[file_no]

\* a faulty test that forgets the cleaned text
is_excluded_mutant(desc) == desc \in EXCLUDED_NAMES

\* `clean_desc is None` / `clean_next_desc is None`
is_excluded(desc) == clean_event_name(desc) = None

SegFrame == UNCHANGED <<component, fs_vars, nm_vars, prep_vars, at_vars, sig_vars, clean_vars, split_vars, hdf_vars, ps_vars, tg_vars>>

CsvNext ==
    /\ component = "segmentor" /\ seg_pc = "csv_next"
    /\ IF file_no <= Len(files)
         THEN /\ seg_pc' = "scan"
              /\ i' = 0
              /\ blocks' = <<>>
              /\ UNCHANGED file_no
         ELSE /\ seg_pc' = "export_next"
              /\ file_no' = 1
              /\ UNCHANGED <<i, blocks>>
    /\ SegFrame
    /\ UNCHANGED <<files, j, segs, csv, csv_written, exported, skipped>>

\* lines 125-130: an excluded annotation at i
ScanSkip ==
    /\ component = "segmentor" /\ seg_pc = "scan"
    /\ i < Len(cur.descriptions)
    /\ is_excluded(cur.descriptions[i + 1])
    /\ i' = i + 1
    /\ SegFrame
    /\ UNCHANGED <<files, seg_pc, file_no, j, blocks, segs, csv, csv_written, exported, skipped>>

\* lines 132-133: a kept annotation at i
ScanStart ==
    /\ component = "segmentor" /\ seg_pc = "scan"
    /\ i < Len(cur.descriptions)
    /\ ~is_excluded(cur.descriptions[i + 1])
    /\ j' = i + 1
    /\ seg_pc' = "inner"
    /\ SegFrame
    /\ UNCHANGED <<files, file_no, i, blocks, segs, csv, csv_written, exported, skipped>>

\* lines 134-138
InnerSkip ==
    /\ component = "segmentor" /\ seg_pc = "inner"
    /\ j < Len(cur.descriptions)
    /\ is_excluded(cur.descriptions[j + 1])
    /\ j' = j + 1
    /\ SegFrame
    /\ UNCHANGED <<files, seg_pc, file_no, i, blocks, segs, csv, csv_written, exported, skipped>>

\* lines 139-146
Emit ==
    /\ component = "segmentor" /\ seg_pc = "inner"
    /\ (j < Len(cur.descriptions) => ~is_excluded(cur.descriptions[j + 1]))
    /\ LET start    == cur.onsets[i + 1]
           end      == segment_end(cur, j)
           duration == end - start
       IN blocks' = Append(blocks,
                           [name     |-> clean_event_name(cur.descriptions[i + 1]),
                            start    |-> start,
                            duration |-> duration])
    /\ i' = j
    /\ seg_pc' = "scan"
    /\ SegFrame
    /\ UNCHANGED <<files, file_no, j, segs, csv, csv_written, exported, skipped>>

\* lines 148-163: the CSV is written, header first, and the for loop of
\* create_block_csvs moves on
WriteCsv ==
    /\ component = "segmentor" /\ seg_pc = "scan"
    /\ i >= Len(cur.descriptions)
    /\ csv' = [csv EXCEPT ![file_no] = csv_rows(blocks)]
    /\ csv_written' = [csv_written EXCEPT ![file_no] = TRUE]
    /\ segs' = [segs EXCEPT ![file_no] = blocks]
    /\ file_no' = file_no + 1
    /\ seg_pc' = "csv_next"
    /\ SegFrame
    /\ UNCHANGED <<files, i, j, blocks, exported, skipped>>

\* a faulty test that never reports an empty CSV
is_csv_empty_mutant(rows) == FALSE

\* is_csv_empty: DictReader yields no row
is_csv_empty(rows) == rows = <<>>

(***************************************************************************)
(* export_block, lines 205-222: one segment file per CSV row.  raw.crop    *)
(* raises ValueError when tmin > tmax; export_block does not catch it.     *)
(***************************************************************************)
segment_file(raw, rows, k) ==
    LET start_sec    == time_str_to_seconds(rows[k].start)
        duration_sec == time_str_to_seconds(rows[k].duration)
        end_sec      == Min2(start_sec + duration_sec, last_time(raw))
    IN [index |-> k, safe_name |-> safe_name(rows[k].name),
        tmin |-> start_sec, tmax |-> end_sec]

\* the rows before the first one on which crop raises
crop_ok_prefix(raw, rows) ==
    LET bad == {k \in 1..Len(rows) :
                    segment_file(raw, rows, k).tmin > segment_file(raw, rows, k).tmax}
    IN IF bad = {} THEN Len(rows) ELSE (CHOOSE k \in bad : \A m \in bad : k <= m) - 1

\* export_blocks, lines 168-183, one file of the listing per step
ExportNext ==
    /\ component = "segmentor" /\ seg_pc = "export_next"
    /\ IF file_no > Len(files)
         THEN /\ seg_pc' = "done"
              /\ UNCHANGED <<file_no, exported, skipped>>
       ELSE IF ~csv_written[file_no] \/ is_csv_empty(csv[file_no])
         THEN /\ skipped' = [skipped EXCEPT ![file_no] = TRUE]
              /\ file_no' = file_no + 1
              /\ UNCHANGED <<seg_pc, exported>>
       ELSE LET n == crop_ok_prefix(cur, csv[file_no]) IN
              /\ exported' = [exported EXCEPT ![file_no] =
                                 [k \in 1..n |-> segment_file(cur, csv[file_no], k)]]
              /\ IF n = Len(csv[file_no])
                   THEN file_no' = file_no + 1 /\ UNCHANGED seg_pc
                   ELSE seg_pc' = "raised" /\ UNCHANGED file_no
              /\ UNCHANGED skipped
    /\ SegFrame
    /\ UNCHANGED <<files, i, j, blocks, segs, csv, csv_written>>

SegNext == CsvNext \/ ScanSkip \/ ScanStart \/ InnerSkip \/ Emit \/ WriteCsv \/ ExportNext

(***************************************************************************)
(* Initial conditions.  Each run exercises one entry point; the state of   *)
(* the others stays idle.                                                  *)
(***************************************************************************)
Pending == <<"<pending>">>

CleanIdle == name = <<>> /\ clean_result = Pending

SegIdle ==
    /\ files = <<>> /\ seg_pc = "idle" /\ file_no = 1 /\ i = 0 /\ j = 0
    /\ blocks = <<>> /\ segs = <<>> /\ csv = <<>> /\ csv_written = <<>>
    /\ exported = <<>> /\ skipped = <<>>

SplitIdle ==
    /\ split_pc = "idle" /\ n_times = 0 /\ sfreq = 1 /\ block_ms = 0
    /\ current_time = 0 /\ block_index = 1 /\ sub_blocks = <<>>

HdfIdle ==
    /\ hdf_pc = "idle" /\ hdf_file = <<>> /\ call = <<>> /\ new_data = <<>>
    /\ updated_sources = <<>> /\ pre = <<>>
    /\ ncalls = 0 /\ last_ok = TRUE

PsIdle ==
    /\ ps_pc = "idle" /\ folders = <<>> /\ folder_no = 1 /\ ps_file_no = 1
    /\ appended = <<>>

TgIdle ==
    /\ tg_pc = "idle" /\ targets = <<>> /\ target_no = 1 /\ overwrite_downloads = FALSE
    /\ local_files = <<>> /\ stage_log = <<>>

SigIdle ==
    /\ sig_pc = "idle" /\ raw_data = <<>> /\ sig_data = <<>> /\ mask = <<>> /\ ch = 1

AtIdle ==
    /\ at_pc = "idle" /\ at_data = <<>> /\ window_size = 1 /\ w = 0
    /\ data_cleaned = <<>> /\ atar_calls = <<>>

PrepIdle ==
    /\ prep_pc = "idle" /\ heap = <<>> /\ arg = 1 /\ before = <<>> /\ returned = <<>>

NmIdle ==
    /\ nm_pc = "idle" /\ nm_label = <<>> /\ nm_base = <<>> /\ nm_path = <<>> /\ nm_block_type = <<>>

FsIdle ==
    /\ fs_pc = "idle" /\ fs_n_times = 0 /\ fs_block_ms = 0 /\ fs_current_time = <<>>
    /\ fs_sub_blocks = <<>> /\ fs_subblocks = <<>>

(***************************************************************************)
(* clean_event_name on every text of at most MaxTextLen chunks.            *)
(***************************************************************************)
TextChunks == {"[", "]", "(", ")", " ", "Fonovaya zapis", "Otkryvanie glaz", "Artefakt", "x"}

InitClean ==
    /\ component = "clean"
    /\ name \in SeqsUpTo(TextChunks, MaxTextLen)
    /\ clean_result = Pending
    /\ SegIdle /\ SplitIdle /\ HdfIdle /\ PsIdle /\ TgIdle /\ SigIdle /\ AtIdle /\ PrepIdle /\ NmIdle /\ FsIdle

CleanCall ==
    /\ component = "clean" /\ clean_result = Pending
    /\ clean_result' = clean_event_name(name)
    /\ UNCHANGED <<component, fs_vars, nm_vars, prep_vars, at_vars, sig_vars, name, seg_vars, split_vars, hdf_vars, ps_vars, tg_vars>>

SpecClean == InitClean /\ [][CleanCall]_vars

(***************************************************************************)
(* The recordings given to the segmenter: annotation lists in onset order  *)
(* (mne keeps raw.annotations sorted by onset and drops annotations that   *)
(* start after the data), plus the 60 s recording of the specification's   *)
(* scenario, and small batches of several recordings.                      *)
(***************************************************************************)
DescValues == {
    <<"Fonovaya zapis">>,
    <<"Otkryvanie glaz", " ", "(", "x", ")">>,
    <<"[", "Artifact", "]">>,
    <<"Artefakt", " ", "[", "x", "]">>,
    <<"Razryv zapisi">> }

OnsetValues == {0, 1500, 30 * USEC, 60 * USEC + 700}

NTimesValues == {15000, 15001}

IsSorted(o) == \A k \in 1..(Len(o) - 1) : o[k] <= o[k + 1]

Recordings(n) ==
    UNION {
        {r \in [descriptions : [1..k -> DescValues],
                onsets       : [1..k -> OnsetValues],
                n_times      : NTimesValues,
                sfreq        : {250}] :
            /\ IsSorted(r.onsets)
            /\ \A m \in 1..k : r.onsets[m] <= total_duration(r)}
        : k \in 0..n}

Scenario ==
    [descriptions |-> << <<"Fonovaya zapis">>, <<"[", "Artifact", "]">>,
                         <<"Otkryvanie glaz">>, <<"Razryv zapisi">> >>,
     onsets       |-> <<0, 30 * USEC, 31 * USEC, 60 * USEC>>,
     n_times      |-> 15000, sfreq |-> 250]

\* two kept annotations with two excluded ones in between and one after
Interleaved ==
    [descriptions |-> << <<"Otkryvanie glaz">>, <<"stimFlash">>, <<"Artefakt", " ", "(", "x", ")">>,
                         <<"Fonovaya zapis", " ", "x">>, <<"Razryv zapisi">> >>,
     onsets       |-> <<1500, 1500, 30 * USEC, 31 * USEC, 60 * USEC>>,
     n_times      |-> 15001, sfreq |-> 250]

BatchRecordings == {
    [descriptions |-> <<>>, onsets |-> <<>>, n_times |-> 15000, sfreq |-> 250],
    [descriptions |-> << <<"Razryv zapisi">>, <<"stimFlash">> >>,
     onsets |-> <<0, 1500>>, n_times |-> 15000, sfreq |-> 250],
    [descriptions |-> << <<"Fonovaya zapis">> >>, onsets |-> <<1500>>, n_times |-> 15001, sfreq |-> 250],
    Scenario }

InitSeg ==
    /\ component = "segmentor"
    /\ files \in {<<r>> : r \in Recordings(MaxAnn) \cup {Scenario, Interleaved}}
                 \cup UNION {[1..k -> BatchRecordings] : k \in 2..MaxFiles}
    /\ seg_pc = "csv_next" /\ file_no = 1 /\ i = 0 /\ j = 0 /\ blocks = <<>>
    /\ segs = [k \in 1..Len(files) |-> <<>>]
    /\ csv = [k \in 1..Len(files) |-> <<>>]
    /\ csv_written = [k \in 1..Len(files) |-> FALSE]
    /\ exported = [k \in 1..Len(files) |-> <<>>]
    /\ skipped = [k \in 1..Len(files) |-> FALSE]
    /\ CleanIdle /\ SplitIdle /\ HdfIdle /\ PsIdle /\ TgIdle /\ SigIdle /\ AtIdle /\ PrepIdle /\ NmIdle /\ FsIdle

SpecSeg == InitSeg /\ [][SegNext]_vars

(***************************************************************************)
(* Annotation Segmenter: properties.                                       *)
(***************************************************************************)
\* the 1-based positions of the annotations that clean_event_name keeps
Kept(raw) == {k \in 1..Len(raw.descriptions) : clean_event_name(raw.descriptions[k]) # None}

\* the m-th smallest element of a set of integers
RECURSIVE Nth(_, _)
Nth(S, m) ==
    LET lo == CHOOSE x \in S : \A y \in S : x <= y
    IN IF m = 1 THEN lo ELSE Nth(S \ {lo}, m - 1)

Durations(b) == [k \in 1..Len(b) |-> b[k].duration]

Ordered(b)    == \A k \in 1..(Len(b) - 1) : b[k].start <= b[k + 1].start
Contiguous(b) == \A k \in 1..(Len(b) - 1) : b[k].start + b[k].duration = b[k + 1].start
NoNegative(b) == \A k \in 1..Len(b) : b[k].duration >= 0

Written(k) == k \in 1..Len(files) /\ csv_written[k]

\* C1, as claimed: the segments of every recording are ordered, contiguous
\* and non-overlapping, and their durations add up to the recording's
\* duration within one sample.
C1_CoversRecording ==
    \A k \in 1..Len(files) : Written(k) =>
        /\ Ordered(segs[k]) /\ Contiguous(segs[k]) /\ NoNegative(segs[k])
        /\ total_duration(files[k]) - SumSeq(Durations(segs[k])) <= sample_period(files[k])
        /\ SumSeq(Durations(segs[k])) - total_duration(files[k]) <= sample_period(files[k])

\* C1, amended: the segments of every recording are ordered, contiguous and
\* non-overlapping; they start at the onset of the first kept annotation
\* and their durations add up to the recording's duration minus that onset
\* (no segment at all when no annotation is kept).  The CSV carries each
\* start and duration cut down to whole milliseconds, so consecutive rows
\* never overlap and leave a gap of at most 1 ms.
C1_TilesFromFirstKept ==
    \A k \in 1..Len(files) : Written(k) =>
        LET b == segs[k]  rows == csv[k]  raw == files[k] IN
        /\ Ordered(b) /\ Contiguous(b) /\ NoNegative(b)
        /\ (Kept(raw) = {}) => b = <<>>
        /\ (Kept(raw) # {}) =>
              /\ b # <<>>
              /\ b[1].start = raw.onsets[Nth(Kept(raw), 1)]
              /\ SumSeq(Durations(b)) = total_duration(raw) - b[1].start
        /\ Len(rows) = Len(b)
        /\ \A m \in 1..Len(b) :
              /\ time_str_to_seconds(rows[m].start) <= b[m].start
              /\ b[m].start - time_str_to_seconds(rows[m].start) < 1000
              /\ time_str_to_seconds(rows[m].duration) <= b[m].duration
              /\ b[m].duration - time_str_to_seconds(rows[m].duration) < 1000
        /\ \A m \in 1..(Len(b) - 1) :
              LET row_end == time_str_to_seconds(rows[m].start)
                               + time_str_to_seconds(rows[m].duration)
              IN /\ row_end <= time_str_to_seconds(rows[m + 1].start)
                 /\ time_str_to_seconds(rows[m + 1].start) - row_end <= 1000

\* a recording with two segments that begin after time 0, one of them cut
\* to the millisecond in the CSV
C1_Witness ==
    \E k \in 1..Len(files) :
        /\ Written(k) /\ Len(segs[k]) >= 2 /\ segs[k][1].start > 0
        /\ time_str_to_seconds(csv[k][1].start) < segs[k][1].start
        /\ SumSeq(Durations(segs[k])) < total_duration(files[k]) - sample_period(files[k])

\* C2, as claimed: the scenario's 60 s recording yields exactly the two
\* segments ("Baseline", 0.0, 31.0) and ("EyesOpen", 31.0, 29.0).
C2_ScenarioSegments ==
    \A k \in 1..Len(files) : (Written(k) /\ files[k] = Scenario) =>
        segs[k] = << [name |-> <<"Baseline">>, start |-> 0, duration |-> 31 * USEC],
                     [name |-> <<"EyesOpen">>, start |-> 31 * USEC, duration |-> 29 * USEC] >>

\* C3: the segments are, in order, one per kept annotation; each starts at
\* that annotation's onset and ends at the onset of the next kept
\* annotation, or at the total duration after the last one.
C3_OneSegmentPerKept ==
    \A k \in 1..Len(files) : Written(k) =>
        LET b == segs[k]  raw == files[k]  K == Kept(raw) IN
        /\ Len(b) = Cardinality(K)
        /\ \A m \in 1..Len(b) :
              /\ b[m].start = raw.onsets[Nth(K, m)]
              /\ b[m].start + b[m].duration =
                    IF m < Cardinality(K) THEN raw.onsets[Nth(K, m + 1)]
                    ELSE total_duration(raw)
              /\ b[m].name = clean_event_name(raw.descriptions[Nth(K, m)])

\* two kept annotations with an excluded one in between, and one after
C3_Witness ==
    \E k \in 1..Len(files) :
        /\ Written(k) /\ Len(segs[k]) = 2 /\ Kept(files[k]) = {1, 4}
        /\ Len(files[k].descriptions) = 5
        /\ segs[k][1].duration = files[k].onsets[4] - files[k].onsets[1]

\* C4: a kept text gets the tag of the first table entry whose pattern
\* occurs in the stripped text, and the stripped text itself when no
\* pattern occurs.
Matching(t) == {k \in 1..Len(TRANSLATIONS) : Contains(t, TRANSLATIONS[k][1])}

C4_FirstMatchWins ==
    (clean_result # Pending /\ clean_result # None) =>
        LET t == strip(re_sub(name)) IN
        IF Matching(t) = {} THEN clean_result = t
        ELSE clean_result = TRANSLATIONS[Nth(Matching(t), 1)][2]

\* a text holding two patterns, the later table entry written first
C4_Witness ==
    /\ clean_result = <<"Baseline">>
    /\ Matching(strip(re_sub(name))) = {1, 2}
    /\ name[1] = "Otkryvanie glaz"

\* C5: a recording without any kept annotation gets no segment and an
\* empty CSV, export_blocks skips it without writing a segment file or
\* raising, and the recordings after it are still exported.
ExportPassed(k) ==
    \/ seg_pc = "done"
    \/ seg_pc \in {"export_next", "raised"} /\ file_no > k

C5_EmptyRecordingSkipped ==
    /\ \A k \in 1..Len(files) : Kept(files[k]) = {} =>
          /\ exported[k] = <<>>
          /\ Written(k) => (segs[k] = <<>> /\ csv[k] = <<>>)
          /\ ExportPassed(k) => skipped[k]
          /\ ~(seg_pc = "raised" /\ file_no = k)
    /\ seg_pc = "done" =>
          \A k \in 1..Len(files) : Kept(files[k]) # {} => (exported[k] # <<>> /\ ~skipped[k])

\* a batch whose first recording has no kept annotation and whose second
\* one was exported
C5_Witness ==
    /\ seg_pc = "done" /\ Len(files) >= 2
    /\ Kept(files[1]) = {} /\ files[1].descriptions # <<>> /\ skipped[1]
    /\ exported[2] # <<>>

\* create_block_csvs has begun or finished the timeline of file f
TimelineBegun(f) == csv_written[f] \/ (seg_pc = "scan" /\ file_no = f)

\* export_blocks has dealt with file f
ExportRan(f) == (seg_pc = "export_next" /\ file_no > f) \/ seg_pc = "done"

\* C25, as claimed: the stages of one recording run to completion before
\* any stage of the next recording begins: when the timeline of a later
\* file of the directory is begun, the segments of every earlier file have
\* been exported.
C25_OneRecordingAtATime ==
    component = "segmentor" =>
        \A a, b \in 1..Len(files) : (a < b /\ TimelineBegun(b)) => ExportRan(a)

(***************************************************************************)
(* Block Splitter: EdfSegmentor.split_edf_into_subblocks on one segment    *)
(* file of n_times samples at sfreq Hz, with the configured block_duration *)
(* given in milliseconds (block_ms).  Times are integers in ticks of       *)
(* 1 / (1000 * sfreq) s: one sample period is 1000 ticks, one millisecond  *)
(* is sfreq ticks, and t seconds are t * sfreq samples = ticks / 1000.     *)
(***************************************************************************)
TicksPerSample == 10 * 100

\* 0.002 s, the constant subtracted in split_edfs_into_subblocks, in ms
EpsilonMs == 2

\* a faulty version that forgets the epsilon
effective_block_duration_mutant(ms, sf) == ms * sf

\* line 233: block_duration = block_duration - 0.002, in ticks
effective_block_duration(ms, sf) == (ms - EpsilonMs) * sf

\* line 269: total_duration = raw.n_times / raw.info["sfreq"], in ticks
split_total_duration(n) == n * TicksPerSample

\* Python round(num / den): to the nearest integer, ties to the even one
RoundHalfEven(num, den) ==
    LET q == num \div den
        r == num % den
    IN IF 2 * r < den THEN q
       ELSE IF 2 * r > den THEN q + 1
       ELSE IF q % 2 = 0 THEN q ELSE q + 1

(***************************************************************************)
(* raw.copy().crop(tmin, tmax) of line 285, as mne.io.Raw.crop defines it: *)
(* ValueError when tmin > tmax, tmin < 0 or tmax > (n_times - 1) / sfreq;  *)
(* otherwise the samples round(tmin * sfreq) .. round(tmax * sfreq), both  *)
(* ends included (include_tmax defaults to True).                          *)
(***************************************************************************)
crop_raises(n, tmin, tmax) ==
    \/ tmin > tmax
    \/ tmin < 0
    \/ tmax > (n - 1) * TicksPerSample

\* a faulty crop that leaves the sample at tmax out
crop_mutant(tmin, tmax) ==
    [first_sample |-> RoundHalfEven(tmin, TicksPerSample),
     last_sample  |-> RoundHalfEven(tmax, TicksPerSample) - 1]

crop(tmin, tmax) ==
    [first_sample |-> RoundHalfEven(tmin, TicksPerSample),
     last_sample  |-> RoundHalfEven(tmax, TicksPerSample)]

block_duration == effective_block_duration(block_ms, sfreq)

next_time == current_time + block_duration

\* the decimal digits of n
RECURSIVE Digits(_)
Digits(n) == IF n < 10 THEN <<n>> ELSE Digits(n \div 10) \o <<n % 10>>

\* f"{block_index:02d}"
format_02d(n) == IF n < 10 THEN <<0>> \o Digits(n) ELSE Digits(n)

\* lines 291-294: f"{base_filename}_block_{block_index:02d}.edf"
out_path(n) == <<"base_filename", "_block_", format_02d(n), ".edf">>

next_block_index_mutant == block_index

\* line 307: block_index += 1
next_block_index == block_index + 1

SplitFrame == UNCHANGED <<component, fs_vars, nm_vars, prep_vars, at_vars, sig_vars, clean_vars, seg_vars, hdf_vars, ps_vars, tg_vars, n_times, sfreq, block_ms>>

\* lines 281-307: one pass of the while loop that exports a block
SplitEmit ==
    /\ component = "splitter" /\ split_pc = "loop"
    /\ current_time + block_duration <= split_total_duration(n_times)
    /\ ~crop_raises(n_times, current_time, next_time)
    /\ block_index <= MaxBlocks
    /\ sub_blocks' = Append(sub_blocks,
                            [block_index  |-> block_index,
                             out_path     |-> out_path(block_index),
                             tmin         |-> current_time,
                             tmax         |-> next_time,
                             first_sample |-> crop(current_time, next_time).first_sample,
                             last_sample  |-> crop(current_time, next_time).last_sample])
    /\ current_time' = next_time
    /\ block_index' = next_block_index
    /\ UNCHANGED split_pc
    /\ SplitFrame

\* lines 297-304: the export of the block raises, the loop is left
SplitExportError ==
    /\ component = "splitter" /\ split_pc = "loop"
    /\ current_time + block_duration <= split_total_duration(n_times)
    /\ ~crop_raises(n_times, current_time, next_time)
    /\ split_pc' = "export_error"
    /\ UNCHANGED <<current_time, block_index, sub_blocks>>
    /\ SplitFrame

\* lines 284-288: crop raises ValueError, the loop is left
SplitCropError ==
    /\ component = "splitter" /\ split_pc = "loop"
    /\ current_time + block_duration <= split_total_duration(n_times)
    /\ crop_raises(n_times, current_time, next_time)
    /\ split_pc' = "crop_error"
    /\ UNCHANGED <<current_time, block_index, sub_blocks>>
    /\ SplitFrame

\* line 281: the loop condition fails
SplitExit ==
    /\ component = "splitter" /\ split_pc = "loop"
    /\ ~(current_time + block_duration <= split_total_duration(n_times))
    /\ split_pc' = "exit"
    /\ UNCHANGED <<current_time, block_index, sub_blocks>>
    /\ SplitFrame

SplitNext == SplitEmit \/ SplitCropError \/ SplitExportError \/ SplitExit

\* the enumerated segments: a few samples at 4 Hz with block durations of
\* 0.502 s (2 samples after the epsilon), 0.627 s (2.5 samples), 1 s and
\* 2 s; and the 256 Hz segments of 5 s and of about 12.3 s with 5 s blocks
InitSplit ==
    /\ component = "splitter"
    /\ \/ /\ sfreq = 4
          /\ n_times \in 1..MaxSamples
          /\ block_ms \in {502, 627, 1000, 2000}
       \/ /\ sfreq = 256
          /\ n_times \in {1280, 3148, 3149}
          /\ block_ms = 5000
    /\ split_pc = "loop" /\ current_time = 0 /\ block_index = 1 /\ sub_blocks = <<>>
    /\ CleanIdle /\ SegIdle /\ HdfIdle /\ PsIdle /\ TgIdle /\ SigIdle /\ AtIdle /\ PrepIdle /\ NmIdle /\ FsIdle

SpecSplit == InitSplit /\ [][SplitNext]_vars

SplitDone == split_pc \in {"exit", "crop_error"}

NumSamples(b) == b.last_sample - b.first_sample + 1

\* C6, as claimed: the splitter emits floor(segment_duration / (d - 0.002))
\* blocks.
C6_BlockCountIsFloor ==
    SplitDone => Len(sub_blocks) = split_total_duration(n_times) \div block_duration

\* C7, as claimed: all blocks have the same number of samples, the first
\* block starts at sample 0 and each block starts at the sample after the
\* last sample of the block before it.
C7_BlocksTileSamples ==
    /\ \A k \in 1..Len(sub_blocks) : NumSamples(sub_blocks[k]) = NumSamples(sub_blocks[1])
    /\ sub_blocks # <<>> => sub_blocks[1].first_sample = 0
    /\ \A k \in 1..(Len(sub_blocks) - 1) :
          sub_blocks[k + 1].first_sample = sub_blocks[k].last_sample + 1

\* the block length of the specification's data model:
\* round((block_duration - epsilon) * sample_rate)
FixedLength(ms, sf) == RoundHalfEven(effective_block_duration(ms, sf), TicksPerSample)

IsC8Scenario == sfreq = 256 /\ block_ms = 5000 /\ n_times \in {3148, 3149}

\* C8, as claimed: 5 s blocks at 256 Hz have round((5.0 - 0.002) * 256) =
\* 1280 samples, and a segment of 12.3 s gives exactly 2 blocks.
C8_Claimed ==
    (IsC8Scenario /\ SplitDone) =>
        /\ FixedLength(block_ms, sfreq) = 1280
        /\ Len(sub_blocks) = 2

\* C8, amended: (5.0 - 0.002) * 256 is 1279.488, which rounds to 1279; the
\* splitter emits exactly 2 blocks, [0, 4.998] s and [4.998, 9.996] s, the
\* first of which holds the 1280 samples 0..1279, and drops the rest.
C8_TwoBlocks ==
    IsC8Scenario =>
        /\ FixedLength(block_ms, sfreq) = 1279
        /\ Len(sub_blocks) <= 2
        /\ SplitDone =>
              /\ split_pc = "exit"
              /\ Len(sub_blocks) = 2
              /\ sub_blocks[1].tmin = 0 /\ sub_blocks[1].tmax = 4998 * 256
              /\ sub_blocks[2].tmin = 4998 * 256 /\ sub_blocks[2].tmax = 9996 * 256
              /\ sub_blocks[1].first_sample = 0 /\ sub_blocks[1].last_sample = 1279
              /\ sub_blocks[2].tmax < split_total_duration(n_times)

C8_Witness == IsC8Scenario /\ split_pc = "exit" /\ Len(sub_blocks) = 2 /\ n_times = 3149

\* the segments of InitSplit, and the block durations at and below the
\* epsilon: 0.002 s (effective block length 0) and 0.001 s (negative)
InitSplitAny ==
    /\ component = "splitter"
    /\ \/ /\ sfreq = 4
          /\ n_times \in 1..MaxSamples
          /\ block_ms \in {1, 2, 502, 627, 1000, 2000}
       \/ /\ sfreq = 256
          /\ n_times \in {1280, 3148, 3149}
          /\ block_ms = 5000
    /\ split_pc = "loop" /\ current_time = 0 /\ block_index = 1 /\ sub_blocks = <<>>
    /\ CleanIdle /\ SegIdle /\ HdfIdle /\ PsIdle /\ TgIdle /\ SigIdle /\ AtIdle /\ PrepIdle /\ NmIdle /\ FsIdle

SpecSplitAny == InitSplitAny /\ [][SplitNext]_vars

\* C28, as claimed, for the Block Splitter: the loop terminates for every
\* block duration because every block it emits moves current_time forward,
\* towards total_duration; current_time never moves back.
C28_EveryBlockAdvances ==
    [][/\ current_time' >= current_time
       /\ Len(sub_blocks') > Len(sub_blocks) => current_time' > current_time]_vars

\* the progress of the scan of create_block_csv over one annotation list
ScanMeasure == IF seg_pc = "inner" THEN 2 * j - 1 ELSE 2 * i

\* the Annotation Segmenter part of C28: every step of the scan raises
\* ScanMeasure, which never exceeds twice the number of annotations
ScanProgress ==
    [][(seg_pc \in {"scan", "inner"} /\ seg_pc' \in {"scan", "inner"}) =>
          /\ ScanMeasure' > ScanMeasure
          /\ ScanMeasure' <= 2 * Len(cur.descriptions)]_vars

\* C26: at every moment the blocks emitted for a segment carry the numbers
\* 1, 2, ..., n in the order of emission, block k spans the k-th stretch of
\* block_duration seconds, and no two blocks have the same output file.
C26_BlocksNumberedInOrder ==
    component = "splitter" =>
        /\ \A k \in 1..Len(sub_blocks) :
              /\ sub_blocks[k].block_index = k
              /\ sub_blocks[k].tmin = (k - 1) * block_duration
              /\ sub_blocks[k].tmax = k * block_duration
        /\ \A k, m \in 1..Len(sub_blocks) :
              sub_blocks[k].out_path = sub_blocks[m].out_path => k = m

\* the loop is over and has emitted three blocks or more
C26_Witness == component = "splitter" /\ SplitDone /\ Len(sub_blocks) >= 3

(***************************************************************************)
(* Aggregate Store: HDF5Manager.add_subblocks_to_hdf5 on one file          *)
(* <diagnosis>_<block_type>.h5.  The file holds one group per patient_id   *)
(* and the file-level attributes.  A dataset or a metadata group that may  *)
(* be missing is a sequence of length 0 (missing) or 1 (present).          *)
(*   data          <<[shape, rows]>>   shape: the (channels, samples) part *)
(*                                     rows : one value per block          *)
(*   metadata      <<[gender, age_cat]>>                                   *)
(*   source_files  <<list of names>>   a name is a sequence of bytes       *)
(* A block is represented by one number; float64 values are the integers,  *)
(* float32 values the even ones.                                           *)
(***************************************************************************)
\* the width of dtype="S100" (lines 50 and 71)
S100 == 100

\* numpy's cast of a byte string to S100: cut after 100 bytes
as_S100(src) == SubSeq(src, 1, Min2(Len(src), S100))

\* the cast to dtype="float32": to the nearest representable value
as_float32(v) == 2 * RoundHalfEven(v, 2)

\* a faulty dataset that keeps the float64 values
float32_dataset_mutant(d) == d

\* create_dataset("data", data=d, dtype="float32")
float32_dataset(d) == [shape |-> d.shape, rows |-> [k \in 1..Len(d.rows) |-> as_float32(d.rows[k])]]

\* a faulty update that keeps only the new blocks
np_concatenate_mutant(existing_data, data) == data

\* np.concatenate([existing_data[:], data], axis=0)
np_concatenate(existing_data, data) ==
    [shape |-> existing_data.shape, rows |-> existing_data.rows \o data.rows]

\* np.concatenate raises ValueError unless the other dimensions agree
concatenate_raises(existing_data, data) == existing_data.shape # data.shape

InList(x, lst) == \E k \in 1..Len(lst) : lst[k] = x

\* a faulty update that appends the file name without looking
source_is_new_mutant(src, existing_sources) == TRUE

\* line 65: metadata["source_file"] not in existing_sources
source_is_new(src, existing_sources) == ~InList(src, existing_sources)

\* np.array(updated_sources) stored with dtype="S100"
S100_dataset(lst) == [k \in 1..Len(lst) |-> as_S100(lst[k])]

patient_group == hdf_file.groups[call.patient_id]

SetGroup(g) == [hdf_file EXCEPT !.groups = (call.patient_id :> g) @@ hdf_file.groups]

HdfFrame == UNCHANGED <<component, fs_vars, nm_vars, prep_vars, at_vars, sig_vars, clean_vars, seg_vars, split_vars, ps_vars, tg_vars>>

\* the arguments of the calls of the model
ShortName == <<1>>
LongName  == [k \in 1..(S100 + 1) |-> 7]

Calls ==
    [patient_id : {"p1", "p2"},
     data : {[shape |-> 1280, rows |-> <<2>>],
             [shape |-> 1280, rows |-> <<3, 6>>],
             [shape |-> 1281, rows |-> <<2>>]},
     metadata : {[gender |-> "M", age_cat |-> "18-25 years", source_file |-> ShortName],
                 [gender |-> "F", age_cat |-> "40+ years", source_file |-> LongName]},
     global_attributes : {("creation_date" :> 1),
                          ("creation_date" :> 2) @@ ("sampling_rate" :> 256)}]

\* a faulty call that goes to the file-level attributes at once
HdfCall_mutant ==
    /\ component = "store" /\ hdf_pc = "idle" /\ ncalls < MaxCalls
    /\ \E c \in Calls : call' = c
    /\ hdf_pc' = "attrs"
    /\ pre' = hdf_file
    /\ ncalls' = ncalls + 1
    /\ UNCHANGED <<hdf_file, new_data, updated_sources, last_ok>>
    /\ HdfFrame

\* lines 38-39 and 53: the file is opened and the group looked up
HdfCall ==
    /\ component = "store" /\ hdf_pc = "idle" /\ ncalls < MaxCalls
    /\ \E c \in Calls :
          /\ call' = c
          /\ hdf_pc' = IF c.patient_id \in DOMAIN hdf_file.groups
                         THEN "concatenate" ELSE "create_group"
    /\ pre' = hdf_file
    /\ ncalls' = ncalls + 1
    /\ UNCHANGED <<hdf_file, new_data, updated_sources, last_ok>>
    /\ HdfFrame

\* line 40
HdfCreateGroup ==
    /\ component = "store" /\ hdf_pc = "create_group"
    /\ hdf_file' = SetGroup([data |-> <<>>, metadata |-> <<>>, source_files |-> <<>>])
    /\ hdf_pc' = "create_data"
    /\ UNCHANGED <<call, new_data, updated_sources, pre, ncalls, last_ok>>
    /\ HdfFrame

\* line 41
HdfCreateData ==
    /\ component = "store" /\ hdf_pc = "create_data"
    /\ hdf_file' = SetGroup([patient_group EXCEPT !.data = <<float32_dataset(call.data)>>])
    /\ hdf_pc' = "create_metadata"
    /\ UNCHANGED <<call, new_data, updated_sources, pre, ncalls, last_ok>>
    /\ HdfFrame

\* lines 43-45
HdfCreateMetadata ==
    /\ component = "store" /\ hdf_pc = "create_metadata"
    /\ hdf_file' = SetGroup([patient_group EXCEPT !.metadata =
                                <<[gender  |-> call.metadata.gender,
                                   age_cat |-> call.metadata.age_cat]>>])
    /\ hdf_pc' = "create_sources"
    /\ UNCHANGED <<call, new_data, updated_sources, pre, ncalls, last_ok>>
    /\ HdfFrame

\* lines 46-51
HdfCreateSources ==
    /\ component = "store" /\ hdf_pc = "create_sources"
    /\ hdf_file' = SetGroup([patient_group EXCEPT !.source_files =
                                <<S100_dataset(<<call.metadata.source_file>>)>>])
    /\ hdf_pc' = "attrs"
    /\ UNCHANGED <<call, new_data, updated_sources, pre, ncalls, last_ok>>
    /\ HdfFrame

\* lines 56-57
HdfConcatenate ==
    /\ component = "store" /\ hdf_pc = "concatenate"
    /\ ~concatenate_raises(patient_group.data[1], call.data)
    /\ new_data' = np_concatenate(patient_group.data[1], call.data)
    /\ hdf_pc' = "del_data"
    /\ UNCHANGED <<hdf_file, call, updated_sources, pre, ncalls, last_ok>>
    /\ HdfFrame

\* line 57 raises ValueError: the with block closes the file, the call fails
HdfConcatenateRaises ==
    /\ component = "store" /\ hdf_pc = "concatenate"
    /\ concatenate_raises(patient_group.data[1], call.data)
    /\ hdf_pc' = "idle"
    /\ last_ok' = FALSE
    /\ UNCHANGED <<hdf_file, call, new_data, updated_sources, pre, ncalls>>
    /\ HdfFrame

\* line 58
HdfDelData ==
    /\ component = "store" /\ hdf_pc = "del_data"
    /\ hdf_file' = SetGroup([patient_group EXCEPT !.data = <<>>])
    /\ hdf_pc' = "recreate_data"
    /\ UNCHANGED <<call, new_data, updated_sources, pre, ncalls, last_ok>>
    /\ HdfFrame

\* line 59
HdfRecreateData ==
    /\ component = "store" /\ hdf_pc = "recreate_data"
    /\ hdf_file' = SetGroup([patient_group EXCEPT !.data = <<float32_dataset(new_data)>>])
    /\ hdf_pc' = "sources"
    /\ UNCHANGED <<call, new_data, updated_sources, pre, ncalls, last_ok>>
    /\ HdfFrame

\* lines 62-65, the file name is already listed
HdfSourceKnown ==
    /\ component = "store" /\ hdf_pc = "sources"
    /\ ~source_is_new(call.metadata.source_file, patient_group.source_files[1])
    /\ hdf_pc' = "attrs"
    /\ UNCHANGED <<hdf_file, call, new_data, updated_sources, pre, ncalls, last_ok>>
    /\ HdfFrame

\* lines 62-67, the file name is not listed
HdfDelSources ==
    /\ component = "store" /\ hdf_pc = "sources"
    /\ source_is_new(call.metadata.source_file, patient_group.source_files[1])
    /\ updated_sources' = Append(patient_group.source_files[1], call.metadata.source_file)
    /\ hdf_file' = SetGroup([patient_group EXCEPT !.source_files = <<>>])
    /\ hdf_pc' = "recreate_sources"
    /\ UNCHANGED <<call, new_data, pre, ncalls, last_ok>>
    /\ HdfFrame

\* lines 68-73
HdfRecreateSources ==
    /\ component = "store" /\ hdf_pc = "recreate_sources"
    /\ hdf_file' = SetGroup([patient_group EXCEPT !.source_files =
                                <<S100_dataset(updated_sources)>>])
    /\ hdf_pc' = "attrs"
    /\ UNCHANGED <<call, new_data, updated_sources, pre, ncalls, last_ok>>
    /\ HdfFrame

\* a faulty loop that writes only the attributes the file does not have yet
update_attrs_mutant(attrs, global_attributes) == attrs @@ global_attributes

\* lines 76-77: hdf_file.attrs[key] = value for every item of global_attributes
update_attrs(attrs, global_attributes) == global_attributes @@ attrs

\* lines 76-77, and the end of the with block
HdfAttrs ==
    /\ component = "store" /\ hdf_pc = "attrs"
    /\ hdf_file' = [hdf_file EXCEPT !.attrs = update_attrs(hdf_file.attrs, call.global_attributes)]
    /\ hdf_pc' = "idle"
    /\ last_ok' = TRUE
    /\ UNCHANGED <<call, new_data, updated_sources, pre, ncalls>>
    /\ HdfFrame

\* the process dies inside the with block, or an h5py call of lines 40-77
\* raises (an I/O error): what the steps before it did stays in the file
HdfCrash ==
    /\ component = "store" /\ hdf_pc \notin {"idle", "crashed"}
    /\ hdf_pc' = "crashed"
    /\ last_ok' = FALSE
    /\ UNCHANGED <<hdf_file, call, new_data, updated_sources, pre, ncalls>>
    /\ HdfFrame

HdfNext ==
    \/ HdfCall
    \/ HdfCreateGroup \/ HdfCreateData \/ HdfCreateMetadata \/ HdfCreateSources
    \/ HdfConcatenate \/ HdfConcatenateRaises \/ HdfDelData \/ HdfRecreateData
    \/ HdfSourceKnown \/ HdfDelSources \/ HdfRecreateSources
    \/ HdfAttrs

InitStore ==
    /\ component = "store"
    /\ hdf_pc = "idle"
    /\ hdf_file = [groups |-> <<>>, attrs |-> <<>>]
    /\ pre = [groups |-> <<>>, attrs |-> <<>>]
    /\ call = <<>> /\ new_data = <<>> /\ updated_sources = <<>>
    /\ ncalls = 0 /\ last_ok = TRUE
    /\ CleanIdle /\ SegIdle /\ SplitIdle /\ PsIdle /\ TgIdle /\ SigIdle /\ AtIdle /\ PrepIdle /\ NmIdle /\ FsIdle

SpecStore == InitStore /\ [][HdfNext]_vars

\* the same calls, any of which may be cut short
HdfCrashNext == HdfNext \/ HdfCrash

SpecStoreCrash == InitStore /\ [][HdfCrashNext]_vars

(***************************************************************************)
(* Aggregate Store: properties.  They speak of the file between two calls  *)
(* (hdf_pc = "idle"); pre is the file as the last call found it.           *)
(***************************************************************************)
Rows(file, p) == file.groups[p].data[1].rows

NoDuplicates(lst) == \A k, m \in 1..Len(lst) : lst[k] = lst[m] => k = m

\* C10, as claimed: after any sequence of appends the provenance list of
\* every group holds each source file once.
C10_ProvenanceDeduplicated ==
    hdf_pc = "idle" =>
        \A p \in DOMAIN hdf_file.groups : NoDuplicates(hdf_file.groups[p].source_files[1])

\* C11, as claimed: when a call for a patient_id whose group existed is cut
\* short (it raises, or the process dies), the blocks the group held before
\* the call are all still in the file, unchanged.
C11_CrashKeepsBlocks ==
    (hdf_pc = "crashed" /\ call.patient_id \in DOMAIN pre.groups) =>
        /\ call.patient_id \in DOMAIN hdf_file.groups
        /\ hdf_file.groups[call.patient_id].data # <<>>
        /\ Len(Rows(hdf_file, call.patient_id)) >= Len(Rows(pre, call.patient_id))
        /\ SubSeq(Rows(hdf_file, call.patient_id), 1, Len(Rows(pre, call.patient_id)))
              = Rows(pre, call.patient_id)

\* what one call has to leave in the block array of its group
RowsBefore(p) == IF p \in DOMAIN pre.groups THEN Rows(pre, p) ELSE <<>>

DataWritten ==
    /\ hdf_pc \notin {"idle", "crashed"}
    /\ call.patient_id \in DOMAIN hdf_file.groups
    /\ hdf_file.groups[call.patient_id].data # <<>>
    /\ Rows(hdf_file, call.patient_id) =
          RowsBefore(call.patient_id) \o float32_dataset(call.data).rows

Provenance(file, p) == IF p \in DOMAIN file.groups THEN file.groups[p].source_files ELSE <<>>

Metadata(file, p) == IF p \in DOMAIN file.groups THEN file.groups[p].metadata ELSE <<>>

ProvenanceWritten ==
    /\ Provenance(hdf_file, call.patient_id) # <<>>
    /\ InList(as_S100(call.metadata.source_file), Provenance(hdf_file, call.patient_id)[1])

\* C12: inside one call, every step that changes the source_files list or
\* the metadata of a group finds the block data of the call already
\* written, and the step that writes the file-level attributes finds both
\* the data written and the source file listed.
C12_DataFirst ==
    [][ /\ (\E p \in DOMAIN hdf_file'.groups :
               \/ Provenance(hdf_file', p) # Provenance(hdf_file, p)
               \/ Metadata(hdf_file', p) # Metadata(hdf_file, p)) => DataWritten
        /\ (HdfAttrs \/ hdf_file'.attrs # hdf_file.attrs) => (DataWritten /\ ProvenanceWritten)
      ]_vars

\* a call that extends a group stands before its attribute write: the
\* blocks and the source file are in, the attributes are still the old ones
C12_Witness ==
    /\ hdf_pc = "attrs"
    /\ call.patient_id \in DOMAIN pre.groups
    /\ DataWritten
    /\ Provenance(hdf_file, call.patient_id) # Provenance(pre, call.patient_id)
    /\ hdf_file.attrs = pre.attrs
    /\ update_attrs(hdf_file.attrs, call.global_attributes) # hdf_file.attrs

\* C13: when a call returns, whether it created the group or extended it,
\* every file-level attribute named in its global_attributes holds the
\* value of that call, and every other attribute is as the call found it.
C13_LastWriterWins ==
    (hdf_pc = "idle" /\ ncalls > 0 /\ last_ok) =>
        /\ DOMAIN hdf_file.attrs = DOMAIN pre.attrs \cup DOMAIN call.global_attributes
        /\ \A k \in DOMAIN call.global_attributes :
              hdf_file.attrs[k] = call.global_attributes[k]
        /\ \A k \in DOMAIN pre.attrs \ DOMAIN call.global_attributes :
              hdf_file.attrs[k] = pre.attrs[k]

\* the third call names creation_date only, after a call that had set
\* creation_date and sampling_rate: the date is replaced, the rate stays
C13_Witness ==
    /\ hdf_pc = "idle" /\ last_ok /\ ncalls = MaxCalls
    /\ pre.attrs = ("creation_date" :> 2) @@ ("sampling_rate" :> 256)
    /\ call.global_attributes = ("creation_date" :> 1)
    /\ hdf_file.attrs = ("creation_date" :> 1) @@ ("sampling_rate" :> 256)

OtherGroupsUnchanged ==
    /\ DOMAIN hdf_file.groups = DOMAIN pre.groups \cup {call.patient_id}
    /\ \A p \in DOMAIN pre.groups : hdf_file.groups[p] = pre.groups[p]

Created == hdf_pc = "idle" /\ ncalls > 0 /\ last_ok /\ call.patient_id \notin DOMAIN pre.groups

\* C14, as claimed: a call for a patient_id without a group creates a group
\* whose block array is exactly the given blocks, whose metadata is the
\* given gender and age category, and whose source file list is the given
\* source_file alone; the other groups are unchanged.
C14_Claimed ==
    Created =>
        /\ Rows(hdf_file, call.patient_id) = call.data.rows
        /\ Metadata(hdf_file, call.patient_id) =
              <<[gender |-> call.metadata.gender, age_cat |-> call.metadata.age_cat]>>
        /\ Provenance(hdf_file, call.patient_id) = << <<call.metadata.source_file>> >>
        /\ OtherGroupsUnchanged

\* C14: a call for a patient_id without a group creates a group whose block
\* array is the given blocks in their order, each converted to float32,
\* whose metadata is the given gender and age category, and whose source
\* file list is the first 100 bytes of the given source_file alone; the
\* other groups are unchanged.
C14_GroupCreated ==
    Created =>
        /\ hdf_file.groups[call.patient_id].data =
              <<[shape |-> call.data.shape,
                 rows  |-> [k \in 1..Len(call.data.rows) |-> as_float32(call.data.rows[k])]]>>
        /\ Metadata(hdf_file, call.patient_id) =
              <<[gender |-> call.metadata.gender, age_cat |-> call.metadata.age_cat]>>
        /\ Provenance(hdf_file, call.patient_id) = << <<as_S100(call.metadata.source_file)>> >>
        /\ OtherGroupsUnchanged

\* a second group is created next to a first one, from blocks that change
\* in the conversion and a file name of more than 100 bytes
C14_Witness ==
    /\ Created
    /\ DOMAIN pre.groups # {}
    /\ call.data.rows = <<3, 6>>
    /\ Rows(hdf_file, call.patient_id) = <<4, 6>>
    /\ call.metadata.gender = "F"
    /\ Len(call.metadata.source_file) > S100
    /\ Len(Provenance(hdf_file, call.patient_id)[1][1]) = S100

(***************************************************************************)
(* process_subblocks: every patient folder of subblocks_dir, every block   *)
(* file in it, one add_subblocks_to_hdf5 call per file.                    *)
(*   folder  [patient_id, is_dir, files]                                   *)
(*   file    [file_name, loadable, raw]; file_name is the sequence of its  *)
(*           fields between underscores, e.g. 01_EC_p1_block_01.edf        *)
(*   raw     [shape, subject_info, meas_date]; a value that may be None is *)
(*           a sequence of length 0 (None) or 1                            *)
(***************************************************************************)
MaxFolders == 3     \* entries of subblocks_dir

\* lines 146-147: mapping.csv as a dict, "New Name" -> "Diag_Code"
mapping_dict == ("p1.edf" :> <<"F20">>) @@ ("p2.edf" :> <<"F32">>) @@ ("p4.edf" :> <<"F20">>)

\* mapping_dict.get(key)
dict_get(d, key) == IF key \in DOMAIN d THEN d[key] ELSE None

\* a faulty test that takes the missing diagnosis for one
no_diagnosis_mutant(diagnosis) == FALSE

\* line 157: not diagnosis (None, or an empty code)
no_diagnosis(diagnosis) == diagnosis = None \/ diagnosis = <<>>

\* lines 80-89
get_gender_from_raw(raw) ==
    IF raw.subject_info = <<>> THEN "N"
    ELSE IF raw.subject_info[1].sex = 1 THEN "M"
    ELSE IF raw.subject_info[1].sex = 2 THEN "F"
    ELSE "N"

\* lines 101-112; the last range has no upper end
age_categories == <<
    [start |-> 0,  end |-> <<3>>,  category |-> "0-3 years"],
    [start |-> 3,  end |-> <<6>>,  category |-> "3-6 years"],
    [start |-> 6,  end |-> <<9>>,  category |-> "6-9 years"],
    [start |-> 9,  end |-> <<12>>, category |-> "9-12 years"],
    [start |-> 12, end |-> <<14>>, category |-> "12-14 years"],
    [start |-> 14, end |-> <<18>>, category |-> "14-18 years"],
    [start |-> 18, end |-> <<25>>, category |-> "18-25 years"],
    [start |-> 25, end |-> <<30>>, category |-> "25-30 years"],
    [start |-> 30, end |-> <<40>>, category |-> "30-40 years"],
    [start |-> 40, end |-> <<>>,   category |-> "40+ years"] >>

\* line 126: start <= age < end
in_range(age, c) == c.start <= age /\ (c.end = <<>> \/ age < c.end[1])

\* lines 120-123
age_of(meas_date, birthday) ==
    (meas_date.year - birthday.year)
      - (IF \/ meas_date.month < birthday.month
            \/ (meas_date.month = birthday.month /\ meas_date.day < birthday.day)
         THEN 1 ELSE 0)

\* lines 92-132.  What the call gives: a pair (age, category), the bare
\* string of line 132 (the loop variable after a loop without a match), or
\* an AttributeError from None.date(), None.get or None.year, which the
\* except ValueError of line 128 does not catch.
calculate_age_cat(raw) ==
    IF raw.meas_date = <<>> \/ raw.subject_info = <<>>
        THEN [kind |-> "raise", age |-> 0, category |-> "AttributeError"]
    ELSE IF raw.subject_info[1].birthday = <<>>
        THEN [kind |-> "raise", age |-> 0, category |-> "AttributeError"]
    ELSE LET age == age_of(raw.meas_date[1], raw.subject_info[1].birthday[1])
             hits == {k \in 1..Len(age_categories) : in_range(age, age_categories[k])}
         IN IF hits # {}
              THEN [kind |-> "pair", age |-> age,
                    category |-> age_categories[CHOOSE k \in hits : \A m \in hits : k <= m].category]
              ELSE [kind |-> "str", age |-> 0,
                    category |-> age_categories[Len(age_categories)].category]

\* the calls made so far for the same file and group found another shape:
\* np.concatenate of add_subblocks_to_hdf5 raises
append_raises(log, c) ==
    \E k \in 1..Len(log) :
        /\ log[k].diagnosis = c.diagnosis /\ log[k].block_type = c.block_type
        /\ log[k].patient_id = c.patient_id
        /\ concatenate_raises([shape |-> log[k].shape], [shape |-> c.shape])

folder == folders[folder_no]

diagnosis == dict_get(mapping_dict, folder.patient_id \o ".edf")

ps_file == folder.files[ps_file_no]

\* lines 198-205: the arguments of the call
ps_call ==
    [diagnosis   |-> diagnosis,
     block_type  |-> ps_file.file_name[2],
     patient_id  |-> folder.patient_id,
     shape       |-> ps_file.raw.shape,
     gender      |-> get_gender_from_raw(ps_file.raw),
     age_cat     |-> calculate_age_cat(ps_file.raw).category,
     source_file |-> ps_file.file_name]

PsFrame == UNCHANGED <<component, fs_vars, nm_vars, prep_vars, at_vars, sig_vars, clean_vars, seg_vars, split_vars, hdf_vars, tg_vars, folders>>

\* lines 150-153: an entry that is not a directory
PsNotDir ==
    /\ component = "subblocks" /\ ps_pc = "folder" /\ folder_no <= Len(folders)
    /\ ~folder.is_dir
    /\ folder_no' = folder_no + 1
    /\ UNCHANGED <<ps_pc, ps_file_no, appended>>
    /\ PsFrame

\* lines 155-159: no diagnosis for the folder, print and continue
PsNoDiagnosis ==
    /\ component = "subblocks" /\ ps_pc = "folder" /\ folder_no <= Len(folders)
    /\ folder.is_dir /\ no_diagnosis(diagnosis)
    /\ folder_no' = folder_no + 1
    /\ UNCHANGED <<ps_pc, ps_file_no, appended>>
    /\ PsFrame

\* lines 155-162: the folder has a diagnosis, its files are listed
PsEnterFolder ==
    /\ component = "subblocks" /\ ps_pc = "folder" /\ folder_no <= Len(folders)
    /\ folder.is_dir /\ ~no_diagnosis(diagnosis)
    /\ ps_pc' = "file" /\ ps_file_no' = 1
    /\ UNCHANGED <<folder_no, appended>>
    /\ PsFrame

\* line 165: file_name.split("_")[1] on a name without an underscore
PsIndexError ==
    /\ component = "subblocks" /\ ps_pc = "file" /\ ps_file_no <= Len(folder.files)
    /\ Len(ps_file.file_name) < 2
    /\ ps_pc' = "raised"
    /\ UNCHANGED <<folder_no, ps_file_no, appended>>
    /\ PsFrame

\* lines 168-174: the file cannot be read, print and continue
PsLoadError ==
    /\ component = "subblocks" /\ ps_pc = "file" /\ ps_file_no <= Len(folder.files)
    /\ Len(ps_file.file_name) >= 2 /\ ~ps_file.loadable
    /\ ps_file_no' = ps_file_no + 1
    /\ UNCHANGED <<ps_pc, folder_no, appended>>
    /\ PsFrame

\* line 176: calculate_age_cat raises, or its result is not a pair
PsAgeError ==
    /\ component = "subblocks" /\ ps_pc = "file" /\ ps_file_no <= Len(folder.files)
    /\ Len(ps_file.file_name) >= 2 /\ ps_file.loadable
    /\ calculate_age_cat(ps_file.raw).kind # "pair"
    /\ ps_pc' = "raised"
    /\ UNCHANGED <<folder_no, ps_file_no, appended>>
    /\ PsFrame

\* lines 176-205: the call is made and returns
PsAppend ==
    /\ component = "subblocks" /\ ps_pc = "file" /\ ps_file_no <= Len(folder.files)
    /\ Len(ps_file.file_name) >= 2 /\ ps_file.loadable
    /\ calculate_age_cat(ps_file.raw).kind = "pair"
    /\ ~append_raises(appended, ps_call)
    /\ appended' = Append(appended, ps_call)
    /\ ps_file_no' = ps_file_no + 1
    /\ UNCHANGED <<ps_pc, folder_no>>
    /\ PsFrame

\* lines 198-205: the call raises (line 57)
PsAppendRaises ==
    /\ component = "subblocks" /\ ps_pc = "file" /\ ps_file_no <= Len(folder.files)
    /\ Len(ps_file.file_name) >= 2 /\ ps_file.loadable
    /\ calculate_age_cat(ps_file.raw).kind = "pair"
    /\ append_raises(appended, ps_call)
    /\ ps_pc' = "raised"
    /\ UNCHANGED <<folder_no, ps_file_no, appended>>
    /\ PsFrame

\* line 207: the files of the folder are done
PsFolderDone ==
    /\ component = "subblocks" /\ ps_pc = "file" /\ ps_file_no > Len(folder.files)
    /\ ps_pc' = "folder" /\ folder_no' = folder_no + 1
    /\ UNCHANGED <<ps_file_no, appended>>
    /\ PsFrame

\* line 149: the listing is exhausted, process_subblocks returns
PsReturn ==
    /\ component = "subblocks" /\ ps_pc = "folder" /\ folder_no > Len(folders)
    /\ ps_pc' = "done"
    /\ UNCHANGED <<folder_no, ps_file_no, appended>>
    /\ PsFrame

PsNext ==
    \/ PsNotDir \/ PsNoDiagnosis \/ PsEnterFolder
    \/ PsIndexError \/ PsLoadError \/ PsAgeError \/ PsAppend \/ PsAppendRaises
    \/ PsFolderDone \/ PsReturn

\* the block files and folders of the model
Date(y, m, d) == [year |-> y, month |-> m, day |-> d]

RawOf(shape, sex, birthday) ==
    [shape |-> shape,
     subject_info |-> <<[sex |-> sex, birthday |-> birthday]>>,
     meas_date |-> <<Date(2020, 6, 15)>>]

BlockFile(no, block_type, pid, raw) ==
    [file_name |-> <<no, block_type, pid, "block", "01.edf">>, loadable |-> TRUE, raw |-> raw]

Adult == RawOf(1280, 1, <<Date(2000, 6, 16)>>)

Child == RawOf(1280, 2, <<Date(2015, 6, 15)>>)

FolderValues == {
    [patient_id |-> "p1", is_dir |-> TRUE,
     files |-> <<BlockFile("01", "EC", "p1", Adult), BlockFile("02", "EO", "p1", Adult)>>],
    [patient_id |-> "p1", is_dir |-> TRUE,
     files |-> <<[BlockFile("01", "EC", "p1", Adult) EXCEPT !.loadable = FALSE],
                 BlockFile("02", "EO", "p1", Adult)>>],
    [patient_id |-> "p2", is_dir |-> TRUE,
     files |-> <<BlockFile("01", "EC", "p2", Child)>>],
    [patient_id |-> "p2", is_dir |-> TRUE,
     files |-> <<BlockFile("01", "EC", "p2", Child),
                 BlockFile("02", "EC", "p2", RawOf(1281, 0, <<Date(2015, 6, 15)>>))>>],
    [patient_id |-> "p3", is_dir |-> TRUE,
     files |-> <<BlockFile("01", "EC", "p3", Adult), BlockFile("02", "EO", "p3", Adult)>>],
    [patient_id |-> "p4", is_dir |-> TRUE,
     files |-> <<BlockFile("01", "EC", "p4", RawOf(1280, 1, <<>>))>>],
    [patient_id |-> "p4", is_dir |-> TRUE,
     files |-> <<BlockFile("01", "EC", "p4", RawOf(1280, 1, <<Date(2021, 1, 1)>>))>>],
    [patient_id |-> "p4", is_dir |-> TRUE,
     files |-> <<[file_name |-> <<"README">>, loadable |-> FALSE, raw |-> Adult]>>],
    [patient_id |-> "mapping.csv", is_dir |-> FALSE, files |-> <<>>] }

\* os.listdir: no two entries of a directory have the same name
DistinctNames(fs) == \A k, m \in 1..Len(fs) : fs[k].patient_id = fs[m].patient_id => k = m

InitSubblocks ==
    /\ component = "subblocks"
    /\ folders \in {fs \in UNION {[1..k -> FolderValues] : k \in 1..MaxFolders} : DistinctNames(fs)}
    /\ ps_pc = "folder" /\ folder_no = 1 /\ ps_file_no = 1 /\ appended = <<>>
    /\ CleanIdle /\ SegIdle /\ SplitIdle /\ HdfIdle /\ TgIdle /\ SigIdle /\ AtIdle /\ PrepIdle /\ NmIdle /\ FsIdle

SpecSubblocks == InitSubblocks /\ [][PsNext]_vars

(***************************************************************************)
(* process_subblocks: properties.                                          *)
(***************************************************************************)
Labelled(f) == f.is_dir /\ dict_get(mapping_dict, f.patient_id \o ".edf") # None

\* the call made for file fl of folder f
CallFor(f, fl) ==
    [diagnosis   |-> dict_get(mapping_dict, f.patient_id \o ".edf"),
     block_type  |-> fl.file_name[2],
     patient_id  |-> f.patient_id,
     shape       |-> fl.raw.shape,
     gender      |-> get_gender_from_raw(fl.raw),
     age_cat     |-> calculate_age_cat(fl.raw).category,
     source_file |-> fl.file_name]

\* the calls due for the first n files of folder f
RECURSIVE CallsOf(_, _)
CallsOf(f, n) ==
    IF n = 0 THEN <<>>
    ELSE CallsOf(f, n - 1) \o
         (IF f.files[n].loadable THEN <<CallFor(f, f.files[n])>> ELSE <<>>)

\* the calls due for the first k entries of the listing
RECURSIVE CallsDue(_)
CallsDue(k) ==
    IF k = 0 THEN <<>>
    ELSE CallsDue(k - 1) \o
         (IF Labelled(folders[k]) THEN CallsOf(folders[k], Len(folders[k].files)) ELSE <<>>)

\* C15: no call is ever made for a folder without a diagnosis; a failure
\* never arises at such a folder (the loop stands in a file, or has raised,
\* only inside a folder that has one); and whenever the loop stands between
\* two folders, or has returned, the calls made are exactly those due for
\* the readable files of the folders with a diagnosis passed so far, the
\* ones listed after a folder without diagnosis included.
C15_UnlabelledSkipped ==
    component = "subblocks" =>
        /\ \A k \in 1..Len(appended) :
              dict_get(mapping_dict, appended[k].patient_id \o ".edf") # None
        /\ ps_pc \in {"file", "raised"} => Labelled(folder)
        /\ ps_pc \in {"folder", "done"} => appended = CallsDue(folder_no - 1)

\* the listing held a folder with block files and no diagnosis, then a
\* folder with a diagnosis: the run returned and the calls of the second
\* were made
C15_Witness ==
    /\ ps_pc = "done"
    /\ \E k \in 1..(Len(folders) - 1) :
          /\ folders[k].is_dir /\ ~Labelled(folders[k]) /\ folders[k].files # <<>>
          /\ Labelled(folders[k + 1])
          /\ \E m \in 1..Len(appended) :
                /\ appended[m].patient_id = folders[k + 1].patient_id
                /\ \A q \in 1..Len(appended) : appended[q].patient_id # folders[k].patient_id

\* C27, as claimed: calculate_age_cat gives a pair (age, category) for
\* every block file that process_subblocks loads, so that the unpacking of
\* line 176 succeeds; when the age cannot be computed (no measurement date,
\* no birthday, or a birthday after the measurement date) the pair is
\* (None, "Unknown").
C27_AlwaysAPair ==
    (/\ component = "subblocks" /\ ps_pc = "file" /\ ps_file_no <= Len(folder.files)
     /\ Len(ps_file.file_name) >= 2 /\ ps_file.loadable)
        => calculate_age_cat(ps_file.raw).kind = "pair"

(***************************************************************************)
(* main.process_edfs: every row of targets.csv goes through                *)
(* process_single_target: download and checksum, preprocess, segment,      *)
(* upload, clean up.  A file is represented by its content; a target is    *)
(*   [file_name, file_checksum, remote, eligible]                          *)
(* remote is the content the storage holds under file_path, eligible tells *)
(* that the checks of lines 177-193 let the target through.                *)
(***************************************************************************)
MaxTargets == 2     \* rows of targets.csv

\* utils.get_sha256: the digest of the content; two contents of the model
\* never have the same digest
get_sha256(content) == <<"sha256", content>>

target == targets[target_no]

local_path == target.file_name

\* os.path.exists(local_path)
exists(path) == local_files[path] # <<>>

\* line 77
checksum_differs(actual_sha256, expected_sha256) == actual_sha256 # expected_sha256

TgFrame == UNCHANGED <<component, fs_vars, nm_vars, prep_vars, at_vars, sig_vars, clean_vars, seg_vars, split_vars, hdf_vars, ps_vars,
                       targets, overwrite_downloads>>

\* lines 171-193: the target does not pass the checks of the loop
TgSkip ==
    /\ component = "targets" /\ tg_pc = "loop" /\ target_no <= Len(targets)
    /\ ~target.eligible
    /\ target_no' = target_no + 1
    /\ UNCHANGED <<tg_pc, local_files, stage_log>>
    /\ TgFrame

\* lines 69-71: the file is in edf_dir and is not to be overwritten
TgAlreadyThere ==
    /\ component = "targets" /\ tg_pc = "loop" /\ target_no <= Len(targets)
    /\ target.eligible
    /\ exists(local_path) /\ ~overwrite_downloads
    /\ tg_pc' = "preprocess"
    /\ UNCHANGED <<target_no, local_files, stage_log>>
    /\ TgFrame

\* lines 73-80 and 99-100: downloaded, the digest is not the expected one
TgChecksumMismatch ==
    /\ component = "targets" /\ tg_pc = "loop" /\ target_no <= Len(targets)
    /\ target.eligible
    /\ ~(exists(local_path) /\ ~overwrite_downloads)
    /\ checksum_differs(get_sha256(target.remote), target.file_checksum)
    /\ local_files' = [local_files EXCEPT ![local_path] = <<>>]
    /\ target_no' = target_no + 1
    /\ UNCHANGED <<tg_pc, stage_log>>
    /\ TgFrame

\* lines 73-83: downloaded, the digest is the expected one
TgChecksumOk ==
    /\ component = "targets" /\ tg_pc = "loop" /\ target_no <= Len(targets)
    /\ target.eligible
    /\ ~(exists(local_path) /\ ~overwrite_downloads)
    /\ ~checksum_differs(get_sha256(target.remote), target.file_checksum)
    /\ local_files' = [local_files EXCEPT ![local_path] = <<target.remote>>]
    /\ tg_pc' = "preprocess"
    /\ UNCHANGED <<target_no, stage_log>>
    /\ TgFrame

Stage(stage) ==
    [file_name |-> target.file_name, stage |-> stage, content |-> local_files[local_path][1]]

\* line 103
TgPreprocess ==
    /\ component = "targets" /\ tg_pc = "preprocess"
    /\ stage_log' = Append(stage_log, Stage("preprocess"))
    /\ tg_pc' = "segment"
    /\ UNCHANGED <<target_no, local_files>>
    /\ TgFrame

\* lines 107-113
TgSegment ==
    /\ component = "targets" /\ tg_pc = "segment"
    /\ stage_log' = Append(stage_log, Stage("segment"))
    /\ tg_pc' = "upload"
    /\ UNCHANGED <<target_no, local_files>>
    /\ TgFrame

\* lines 116-120
TgUpload ==
    /\ component = "targets" /\ tg_pc = "upload"
    /\ stage_log' = Append(stage_log, Stage("upload"))
    /\ tg_pc' = "cleanup"
    /\ UNCHANGED <<target_no, local_files>>
    /\ TgFrame

\* lines 130-133, and back to the loop of process_edfs
TgCleanup ==
    /\ component = "targets" /\ tg_pc = "cleanup"
    /\ local_files' = [local_files EXCEPT ![local_path] = <<>>]
    /\ tg_pc' = "loop" /\ target_no' = target_no + 1
    /\ UNCHANGED stage_log
    /\ TgFrame

\* line 199: the loop is over
TgReturn ==
    /\ component = "targets" /\ tg_pc = "loop" /\ target_no > Len(targets)
    /\ tg_pc' = "done"
    /\ UNCHANGED <<target_no, local_files, stage_log>>
    /\ TgFrame

TgNext ==
    \/ TgSkip \/ TgAlreadyThere \/ TgChecksumMismatch \/ TgChecksumOk
    \/ TgPreprocess \/ TgSegment \/ TgUpload \/ TgCleanup \/ TgReturn

\* the targets of the model: the storage holds the expected content or a
\* damaged one; edf_dir holds nothing, the expected content, or an older one
FileNames == <<"a.edf", "b.edf", "c.edf">>

TargetValues(nm) ==
    [file_name : {nm}, file_checksum : {get_sha256("expected")},
     remote : {"expected", "damaged"}, eligible : BOOLEAN]

InitTargets ==
    /\ component = "targets"
    /\ \E n \in 1..MaxTargets :
          /\ targets \in {t \in [1..n -> UNION {TargetValues(FileNames[k]) : k \in 1..n}] :
                             \A k \in 1..n : t[k].file_name = FileNames[k]}
          /\ local_files \in [{FileNames[k] : k \in 1..n} -> {<<>>, <<"expected">>, <<"stale">>}]
    /\ overwrite_downloads \in BOOLEAN
    /\ tg_pc = "loop" /\ target_no = 1 /\ stage_log = <<>>
    /\ CleanIdle /\ SegIdle /\ SplitIdle /\ HdfIdle /\ PsIdle /\ SigIdle /\ AtIdle /\ PrepIdle /\ NmIdle /\ FsIdle

SpecTargets == InitTargets /\ [][TgNext]_vars

\* C16, as claimed: every stage runs on a file whose digest is the expected
\* checksum of its target, also when the file was in edf_dir before the
\* run and overwrite_downloads is false.
C16_OnlyVerifiedFilesProcessed ==
    \A k \in 1..Len(stage_log) :
        \E m \in 1..Len(targets) :
            /\ targets[m].file_name = stage_log[k].file_name
            /\ get_sha256(stage_log[k].content) = targets[m].file_checksum

(***************************************************************************)
(* Outlier Masker: the 3-sigma step of edf_filters.sigma_3_filter (lines   *)
(* 43-57) on the samples of one segment; atar_with_3_sigma.py lines 62-75  *)
(* repeat it.  The samples of the recording are integers; the values the   *)
(* step writes (a mean, an interpolated value) are fractions, kept exact   *)
(* as [num, den] in lowest terms.  The standard deviation never appears:   *)
(*     |x - mean| > 3 * std   iff   (n*x - S)^2 > 9 * (n*Q - S^2)          *)
(* with n the number of samples of the channel, S their sum and Q the sum  *)
(* of their squares (mean = S/n, std^2 = Q/n - (S/n)^2).                   *)
(***************************************************************************)
MaxOutliers == 2    \* samples set far off the rest in an enumerated channel
MaxSpans == 4       \* whole block durations in a segment given to both splitters

Abs(x) == IF x < 0 THEN -x ELSE x

RECURSIVE GCD(_, _)
GCD(a, b) == IF b = 0 THEN a ELSE GCD(b, a % b)

\* the fraction n/d, d > 0, in lowest terms
Rat(n, d) == LET g == GCD(Abs(n), d) IN [num |-> n \div g, den |-> d \div g]

RatLeq(a, b) == a.num * b.den <= b.num * a.den

\* a + t * (b - a) / d
RatLin(a, b, t, d) ==
    Rat(a.num * b.den * (d - t) + t * b.num * a.den, a.den * b.den * d)

Squares(x) == [k \in 1..Len(x) |-> x[k] * x[k]]

\* line 45: np.mean(data, axis=1) for one channel
np_mean(x) == Rat(SumSeq(x), Len(x))

\* a faulty mask with a threshold of two standard deviations
exceeds_3_sigma_mutant(x, k) ==
    (Len(x) * x[k] - SumSeq(x)) * (Len(x) * x[k] - SumSeq(x))
        > 4 * (Len(x) * SumSeq(Squares(x)) - SumSeq(x) * SumSeq(x))

\* a faulty mask that also takes a deviation of exactly three
exceeds_3_sigma_ge_mutant(x, k) ==
    (Len(x) * x[k] - SumSeq(x)) * (Len(x) * x[k] - SumSeq(x))
        >= 9 * (Len(x) * SumSeq(Squares(x)) - SumSeq(x) * SumSeq(x))

\* lines 45-48: np.abs(data - mean) > 3 * std at sample k of channel x
exceeds_3_sigma(x, k) ==
    (Len(x) * x[k] - SumSeq(x)) * (Len(x) * x[k] - SumSeq(x))
        > 9 * (Len(x) * SumSeq(Squares(x)) - SumSeq(x) * SumSeq(x))

\* lines 52-53
bad_idx(m) == {k \in 1..Len(m) : m[k]}

good_idx(m) == {k \in 1..Len(m) : ~m[k]}

SetMin(S) == CHOOSE a \in S : \A b \in S : a <= b

SetMax(S) == CHOOSE a \in S : \A b \in S : a >= b

\* np.interp at x between two points of xp: on the line through the
\* nearest point below and the nearest point above
interp_between(x, xp, fp) ==
    LET lo == SetMax({g \in xp : g < x})
        hi == SetMin({g \in xp : g > x})
    IN RatLin(fp[lo], fp[hi], x - lo, hi - lo)

\* a faulty interpolation that continues the first line to the left
np_interp_mutant(x, xp, fp) ==
    IF x < SetMin(xp)
        THEN LET g1 == SetMin(xp)
                 g2 == SetMin(xp \ {g1})
             IN RatLin(fp[g1], fp[g2], x - g1, g2 - g1)
    ELSE IF x > SetMax(xp) THEN fp[SetMax(xp)]
    ELSE interp_between(x, xp, fp)

\* np.interp(x, xp, fp) for x not in xp: fp at the first point of xp left
\* of all points, fp at the last point right of all points
np_interp(x, xp, fp) ==
    IF x < SetMin(xp) THEN fp[SetMin(xp)]
    ELSE IF x > SetMax(xp) THEN fp[SetMax(xp)]
    ELSE interp_between(x, xp, fp)

SigFrame == UNCHANGED <<component, fs_vars, nm_vars, prep_vars, at_vars, clean_vars, seg_vars, split_vars, hdf_vars, ps_vars, tg_vars, raw_data>>

\* lines 45-49: mean, std and mask of every channel, the mean written at
\* the flagged samples (data still holds the samples of raw here)
SigMask ==
    /\ component = "sigma" /\ sig_pc = "mask"
    /\ mask' = [c \in 1..Len(raw_data) |->
                  [k \in 1..Len(raw_data[c]) |-> exceeds_3_sigma(raw_data[c], k)]]
    /\ sig_data' = [c \in 1..Len(sig_data) |->
                      [k \in 1..Len(sig_data[c]) |->
                          IF exceeds_3_sigma(raw_data[c], k)
                          THEN np_mean(raw_data[c]) ELSE sig_data[c][k]]]
    /\ sig_pc' = "interp" /\ ch' = 1
    /\ SigFrame

\* lines 51-55: the channel has two unflagged samples or more
SigInterp ==
    /\ component = "sigma" /\ sig_pc = "interp" /\ ch <= Len(sig_data)
    /\ Cardinality(good_idx(mask[ch])) >= 2
    /\ sig_data' = [sig_data EXCEPT ![ch] =
                      [k \in 1..Len(sig_data[ch]) |->
                          IF k \in bad_idx(mask[ch])
                          THEN np_interp(k, good_idx(mask[ch]), sig_data[ch])
                          ELSE sig_data[ch][k]]]
    /\ ch' = ch + 1
    /\ UNCHANGED <<sig_pc, mask>>
    /\ SigFrame

\* lines 51-54: fewer than two unflagged samples, nothing is interpolated
SigNoInterp ==
    /\ component = "sigma" /\ sig_pc = "interp" /\ ch <= Len(sig_data)
    /\ Cardinality(good_idx(mask[ch])) < 2
    /\ ch' = ch + 1
    /\ UNCHANGED <<sig_pc, sig_data, mask>>
    /\ SigFrame

\* line 57: cleaned = RawArray(data, raw.info)
SigReturn ==
    /\ component = "sigma" /\ sig_pc = "interp" /\ ch > Len(sig_data)
    /\ sig_pc' = "done"
    /\ UNCHANGED <<sig_data, mask, ch>>
    /\ SigFrame

SigNext == SigMask \/ SigInterp \/ SigNoInterp \/ SigReturn

\* the segments of the model: channels of 1, 2, 11 or 21 samples, flat or
\* rippled, with up to MaxOutliers samples set to +100 or to -100 among
\* the first six and the last; alone, or next to a flat channel
OutlierPositions(n) == (1..Min2(n, 6)) \cup {n}

RECURSIVE OutlierSets(_, _)
OutlierSets(n, k) ==
    IF k = 0 THEN {{}}
    ELSE OutlierSets(n, k - 1)
           \cup {P \cup {q} : P \in OutlierSets(n, k - 1), q \in OutlierPositions(n)}

SigChannel(n, P, m, ripple) ==
    [k \in 1..n |-> IF k \in P THEN m ELSE IF ripple THEN k % 3 ELSE 5]

SigLengths == {1, 2, 11, 21}

SigChannels(n) ==
    {SigChannel(n, P, m, r) : P \in OutlierSets(n, MaxOutliers), m \in {-100, 100}, r \in BOOLEAN}

SigInputs ==
    UNION {{<<c>> : c \in SigChannels(n)}
             \cup {<<c, SigChannel(n, {}, 0, FALSE)>> : c \in SigChannels(n)} : n \in SigLengths}

\* line 43: data = raw.get_data(tmin=start, tmax=end), a copy
InitSigma ==
    /\ component = "sigma"
    /\ raw_data \in SigInputs
    /\ sig_data = [c \in 1..Len(raw_data) |-> [k \in 1..Len(raw_data[c]) |-> Rat(raw_data[c][k], 1)]]
    /\ mask = <<>> /\ ch = 1 /\ sig_pc = "mask"
    /\ CleanIdle /\ SegIdle /\ SplitIdle /\ HdfIdle /\ PsIdle /\ TgIdle /\ AtIdle /\ PrepIdle /\ NmIdle /\ FsIdle

SpecSigma == InitSigma /\ [][SigNext]_vars

(***************************************************************************)
(* Outlier Masker: properties.  Flagged is the mask as the specification   *)
(* words it, on the samples of the recording.                              *)
(***************************************************************************)
Flagged(c, k) ==
    LET x == raw_data[c]
        n == Len(x)
        dev == n * x[k] - SumSeq(x)
    IN dev * dev > 9 * (n * SumSeq(Squares(x)) - SumSeq(x) * SumSeq(x))

Unflagged(c) == {k \in 1..Len(raw_data[c]) : ~Flagged(c, k)}

SameShape ==
    /\ Len(sig_data) = Len(raw_data)
    /\ \A c \in 1..Len(raw_data) : Len(sig_data[c]) = Len(raw_data[c])

\* C17: at every point of the step, and so in the matrix it returns, the
\* array has the shape of the input and every sample whose deviation from
\* the channel mean is at most three standard deviations has its input
\* value.
C17_UnflaggedUnchanged ==
    component = "sigma" =>
        /\ SameShape
        /\ \A c \in 1..Len(raw_data) : \A k \in Unflagged(c) :
              sig_data[c][k] = Rat(raw_data[c][k], 1)

\* a two-channel segment is returned with a flagged sample replaced and its
\* unflagged neighbour of another value left alone
C17_Witness ==
    /\ sig_pc = "done" /\ Len(raw_data) = 2
    /\ \E k \in 2..Len(raw_data[1]) :
          /\ Flagged(1, k) /\ sig_data[1][k] # Rat(raw_data[1][k], 1)
          /\ ~Flagged(1, k - 1) /\ raw_data[1][k - 1] # 0
          /\ sig_data[1][k - 1] = Rat(raw_data[1][k - 1], 1)

\* C18: in the returned matrix, on every channel with two unflagged
\* samples or more, the value at each flagged index lies between the
\* smallest and the largest unflagged sample of the channel.
C18_InterpolatedWithinRange ==
    (component = "sigma" /\ sig_pc = "done") =>
        \A c \in 1..Len(raw_data) :
            Cardinality(Unflagged(c)) >= 2 =>
                \A k \in 1..Len(raw_data[c]) :
                    Flagged(c, k) =>
                        /\ RatLeq(Rat(SetMin({raw_data[c][g] : g \in Unflagged(c)}), 1), sig_data[c][k])
                        /\ RatLeq(sig_data[c][k], Rat(SetMax({raw_data[c][g] : g \in Unflagged(c)}), 1))

\* the first sample of a rippled channel is flagged and takes the value of
\* the second, and a flagged sample further on lies strictly between its
\* two neighbours
C18_Witness ==
    /\ sig_pc = "done"
    /\ Flagged(1, 1) /\ ~Flagged(1, 2)
    /\ sig_data[1][1] = Rat(raw_data[1][2], 1) /\ raw_data[1][2] # raw_data[1][3]
    /\ \E k \in 3..(Len(raw_data[1]) - 1) :
          /\ Flagged(1, k) /\ ~Flagged(1, k - 1) /\ ~Flagged(1, k + 1)
          /\ sig_data[1][k] # sig_data[1][k - 1] /\ sig_data[1][k] # sig_data[1][k + 1]
          /\ \/ RatLeq(sig_data[1][k - 1], sig_data[1][k]) /\ RatLeq(sig_data[1][k], sig_data[1][k + 1])
             \/ RatLeq(sig_data[1][k + 1], sig_data[1][k]) /\ RatLeq(sig_data[1][k], sig_data[1][k - 1])

AllEqual(x) == \A k \in 1..Len(x) : x[k] = x[1]

\* C19: a channel whose samples are all equal has no sample in the mask
\* and keeps its samples throughout; on a channel with fewer than two
\* unflagged samples the returned matrix holds the channel mean at every
\* flagged index.
C19_DegenerateChannels ==
    component = "sigma" =>
        \A c \in 1..Len(raw_data) :
            /\ AllEqual(raw_data[c]) =>
                  /\ sig_pc # "mask" => bad_idx(mask[c]) = {}
                  /\ sig_data[c] = [k \in 1..Len(raw_data[c]) |-> Rat(raw_data[c][k], 1)]
            /\ (sig_pc = "done" /\ Cardinality(Unflagged(c)) < 2) =>
                  \A k \in 1..Len(raw_data[c]) :
                      Flagged(c, k) => sig_data[c][k] = np_mean(raw_data[c])

\* a flat channel of 21 samples comes back untouched next to a channel
\* that had a sample flagged
C19_Witness ==
    /\ sig_pc = "done" /\ Len(raw_data) = 2
    /\ Len(raw_data[2]) > 20 /\ AllEqual(raw_data[2])
    /\ bad_idx(mask[2]) = {} /\ bad_idx(mask[1]) # {}
    /\ sig_data[2] = [k \in 1..Len(raw_data[2]) |-> Rat(raw_data[2][k], 1)]

(***************************************************************************)
(* Windowed Artifact Corrector: the window loop of atar_with_3_sigma.py    *)
(* (lines 78-109) on one segment.  The samples are held in microvolts (the *)
(* code multiplies the volts of `data` by 1e6 before it compares or calls  *)
(* ATAR).  ATAR is a library routine: its output for the window x is the   *)
(* sequence of tokens [of |-> x, at |-> k]; a sample that was not given to *)
(* ATAR is the token [of |-> <<value>>, at |-> 0].                         *)
(***************************************************************************)
\* line 81
threshold_uV == 100

Sample(v) == [of |-> <<v>>, at |-> 0]

\* ATAR(x, wv='db4', winsize=128, beta=0.1, thr_method='ipr', OptMode='soft')
ATAR(x) == [k \in 1..Len(x) |-> [of |-> x, at |-> k]]

\* line 80
n_windows == Len(at_data[1]) \div window_size

\* line 82: int(0.8 * data.shape[0])
min_channels_with_artifact == (8 * Len(at_data)) \div 10

\* data[c, start_idx:end_idx] of window v (v counts from 0); a slice stops
\* at the end of the array
Window(c, v) ==
    SubSeq(at_data[c], v * window_size + 1, Min2(v * window_size + window_size, Len(at_data[c])))

\* lines 91-92: np.max(np.abs(segment_uV)) > threshold_uV
artifact_flag(c, v) == \E k \in 1..Len(Window(c, v)) : Abs(Window(c, v)[k]) > threshold_uV

\* line 97: sum(artifact_flags)
sum_artifact_flags(v) == Cardinality({c \in 1..Len(at_data) : artifact_flag(c, v)})

denoised_channels_mutant(v) == {c \in 1..Len(at_data) : artifact_flag(c, v)}

\* line 101: for ch in range(data.shape[0])
denoised_channels(v) == 1..Len(at_data)

AtFrame == UNCHANGED <<component, fs_vars, nm_vars, prep_vars, clean_vars, seg_vars, split_vars, hdf_vars, ps_vars, tg_vars,
                       sig_vars, at_data, window_size>>

\* lines 85-104: the window meets the quorum, ATAR runs on every channel
AtDenoise ==
    /\ component = "atar" /\ at_pc = "window" /\ w < n_windows
    /\ sum_artifact_flags(w) >= min_channels_with_artifact
    /\ data_cleaned' =
          [c \in 1..Len(at_data) |->
              [k \in 1..Len(at_data[c]) |->
                  IF /\ c \in denoised_channels(w)
                     /\ k > w * window_size /\ k <= w * window_size + window_size
                  THEN ATAR(Window(c, w))[k - w * window_size]
                  ELSE data_cleaned[c][k]]]
    /\ atar_calls' = atar_calls \o SelectSeq([c \in 1..Len(at_data) |-> <<w, c>>],
                                              LAMBDA p : p[2] \in denoised_channels(w))
    /\ w' = w + 1
    /\ UNCHANGED at_pc
    /\ AtFrame

\* lines 85-97 and 105-107: the window does not meet the quorum
AtSkip ==
    /\ component = "atar" /\ at_pc = "window" /\ w < n_windows
    /\ sum_artifact_flags(w) < min_channels_with_artifact
    /\ w' = w + 1
    /\ UNCHANGED <<at_pc, data_cleaned, atar_calls>>
    /\ AtFrame

\* line 109: cleaned = RawArray(data_cleaned, segment.info)
AtReturn ==
    /\ component = "atar" /\ at_pc = "window" /\ w >= n_windows
    /\ at_pc' = "done"
    /\ UNCHANGED <<w, data_cleaned, atar_calls>>
    /\ AtFrame

AtNext == AtDenoise \/ AtSkip \/ AtReturn

\* the segments of the model: 1, 2, 5 or 19 channels, two windows of two
\* samples and one sample more; in each window the first f channels peak
\* at 101 or -101 microvolts, the others stay at 100
AtChannelCounts == {1, 2, 5, 19}

AtSegment(nch, f0, f1) ==
    [c \in 1..nch |->
        << IF c <= f0 THEN 101 ELSE 100, 7,
           3, IF c <= f1 THEN -101 ELSE -100,
           250 >>]

AtInputs == UNION {{AtSegment(nch, f0, f1) : f0 \in 0..nch, f1 \in 0..nch} : nch \in AtChannelCounts}

\* lines 78-83
InitAtar ==
    /\ component = "atar"
    /\ at_data \in AtInputs
    /\ window_size = 2
    /\ data_cleaned = [c \in 1..Len(at_data) |-> [k \in 1..Len(at_data[c]) |-> Sample(at_data[c][k])]]
    /\ w = 0 /\ atar_calls = <<>> /\ at_pc = "window"
    /\ CleanIdle /\ SegIdle /\ SplitIdle /\ HdfIdle /\ PsIdle /\ TgIdle /\ SigIdle /\ PrepIdle /\ NmIdle /\ FsIdle

SpecAtar == InitAtar /\ [][AtNext]_vars

(***************************************************************************)
(* Windowed Artifact Corrector: properties.                                *)
(***************************************************************************)
\* ATAR was called for window v
Denoised(v) == \E k \in 1..Len(atar_calls) : atar_calls[k][1] = v

\* channels of window v whose peak absolute amplitude exceeds the threshold
FlaggedChannels(v) ==
    {c \in 1..Len(at_data) :
        \E k \in (v * window_size + 1)..(v * window_size + window_size) :
            Abs(at_data[c][k]) > threshold_uV}

\* ceil(0.8 * channel_count)
CeilQuorum == (8 * Len(at_data) + 9) \div 10

\* C20, as claimed: a window that the loop has passed was denoised if and
\* only if its number of flagged channels is at least ceil(0.8 *
\* channel_count); with 19 channels, 15 flagged channels are not enough.
C20_QuorumIsCeil ==
    component = "atar" =>
        \A v \in 0..(w - 1) :
            Denoised(v) <=> Cardinality(FlaggedChannels(v)) >= CeilQuorum

\* the full windows of window_size samples
FullWindows == Len(at_data[1]) \div window_size

\* the sample positions of window v
WindowSamples(v) == (v * window_size + 1)..(v * window_size + window_size)

\* the number of ATAR calls made for channel c of window v
CallCount(v, c) == Cardinality({k \in 1..Len(atar_calls) : atar_calls[k] = <<v, c>>})

MeetsQuorum(v) == Cardinality(FlaggedChannels(v)) >= min_channels_with_artifact

\* C21: once the loop has passed a window that meets the quorum, every
\* sample of that window on every channel, flagged or not, is the output of
\* ATAR for that channel's window of the masked (pre-correction) data, and
\* ATAR was called exactly once for each channel of that window.
C21_AllChannelsDenoised ==
    component = "atar" =>
        \A v \in 0..(w - 1) :
            MeetsQuorum(v) =>
                \A c \in 1..Len(at_data) :
                    /\ CallCount(v, c) = 1
                    /\ \A k \in WindowSamples(v) :
                          data_cleaned[c][k] =
                              [of |-> SubSeq(at_data[c], v * window_size + 1,
                                             v * window_size + window_size),
                               at |-> k - v * window_size]

\* a 19-channel segment is done and one of its windows met the quorum with
\* 15 flagged channels, so 4 unflagged channels were denoised too
C21_Witness ==
    /\ component = "atar" /\ at_pc = "done" /\ Len(at_data) = 19
    /\ \E v \in 0..(w - 1) :
          /\ Cardinality(FlaggedChannels(v)) = 15
          /\ Denoised(v)
          /\ \E c \in 1..19 : c \notin FlaggedChannels(v) /\ data_cleaned[c][v * window_size + 1].at = 1

\* C22, as claimed: every sample of a full window whose number of flagged
\* channels is below the quorum ceil(0.8 * channel_count), and every sample
\* after the last full window, keeps its value at every moment of the loop,
\* and ATAR is never called for such a window.
C22_OtherSamplesUnchanged ==
    component = "atar" =>
        /\ \A v \in 0..(FullWindows - 1) :
              Cardinality(FlaggedChannels(v)) < CeilQuorum =>
                  /\ ~Denoised(v)
                  /\ \A c \in 1..Len(at_data) : \A k \in WindowSamples(v) :
                        data_cleaned[c][k] = Sample(at_data[c][k])
        /\ \A c \in 1..Len(at_data) :
              \A k \in (FullWindows * window_size + 1)..Len(at_data[c]) :
                  data_cleaned[c][k] = Sample(at_data[c][k])
        /\ \A k \in 1..Len(atar_calls) : atar_calls[k][1] < FullWindows

(***************************************************************************)
(* EdfPreprocessor.preprocess_raw: crop_raw_edf, notch_filter,             *)
(* bandpass_filter, sigma_3_filter and min_max_normalisation. A Recording  *)
(* (mne Raw) is an object: heap holds the objects, and what a stage is     *)
(* given and what it returns are positions in heap. Raw.crop,              *)
(* Raw.notch_filter, Raw.filter and Raw.drop_channels change the object    *)
(* they are called on and return it; Raw.copy, Raw.get_data and RawArray   *)
(* make new objects. A recording is [ch_names, data, onsets]; the          *)
(* recordings of the model are sampled at 1 Hz, sample k is at k - 1 s,    *)
(* and their annotations are 'stimFlash' marks, which sigma_3_filter does  *)
(* not take as segment borders.                                            *)
(***************************************************************************)
\* edf_preproc.py line 51: crop_raw_edf(raw, 5.0)
crop_time == 5

ECG == "ECG  ECG"

\* raw.times[-1]
duration(r) == Len(r.data[1]) - 1

\* Raw.crop raises ValueError for an empty or overlong span
mne_crop_raises(r, tmin, tmax) == tmin > tmax \/ tmax > duration(r)

\* Raw.crop(tmin, tmax): the samples from tmin to tmax, both included, and
\* the annotations that start in that span
mne_crop(r, tmin, tmax) ==
    [r EXCEPT !.data = [c \in 1..Len(r.data) |-> SubSeq(r.data[c], tmin + 1, tmax + 1)],
              !.onsets = SelectSeq(r.onsets, LAMBDA o : o >= tmin /\ o <= tmax)]

\* crop_raw_edf lines 5-12, as the value of the recording afterwards
crop_raw_edf(r) ==
    LET cropped_raw == mne_crop(r, crop_time, duration(r) - crop_time)
    IN  [cropped_raw EXCEPT !.onsets = [k \in 1..Len(cropped_raw.onsets) |->
                                            cropped_raw.onsets[k] - crop_time]]

\* Raw.notch_filter / Raw.filter: the numbers a filter computes are not
\* modelled; a channel either keeps its signal or, when the signal lies
\* outside the pass band (a flat channel under a high-pass), comes out as 0
mne_filter(r, removed) ==
    [r EXCEPT !.data = [c \in 1..Len(r.data) |->
                           IF c \in removed THEN [k \in 1..Len(r.data[c]) |-> 0]
                           ELSE r.data[c]]]

\* sigma_3_filter lines 43-55 for one channel of a one-segment recording
sigma_3_channel(x) ==
    LET flags == [k \in 1..Len(x) |-> exceeds_3_sigma(x, k)]
        data  == [k \in 1..Len(x) |-> IF flags[k] THEN np_mean(x) ELSE x[k]]
    IN  [k \in 1..Len(x) |->
            IF flags[k] /\ Cardinality(good_idx(flags)) >= 2
            THEN np_interp(k, good_idx(flags), data)
            ELSE data[k]]

\* sigma_3_filter lines 57-63, as the value of the new recording
sigma_3_filter(r) ==
    [r EXCEPT !.data = [c \in 1..Len(r.data) |-> sigma_3_channel(r.data[c])]]

\* the positions of the ECG channel (ecg = TRUE) or of the others
ChannelIdx(r, ecg) ==
    SelectSeq([c \in 1..Len(r.ch_names) |-> c], LAMBDA c : (r.ch_names[c] = ECG) = ecg)

\* Raw.drop_channels / Raw.pick_channels, as the value afterwards
pick(r, idx) ==
    [r EXCEPT !.ch_names = [q \in 1..Len(idx) |-> r.ch_names[idx[q]]],
              !.data = [q \in 1..Len(idx) |-> r.data[idx[q]]]]

\* min_max_normalisation lines 9-11
has_ecg(r) == \E c \in 1..Len(r.ch_names) : r.ch_names[c] = ECG

drop_ecg(r) == IF has_ecg(r) THEN pick(r, ChannelIdx(r, FALSE)) ELSE r

\* lines 17-18
min_val(x) == SetMin({x[k] : k \in 1..Len(x)})

max_val(x) == SetMax({x[k] : k \in 1..Len(x)})

\* line 19
zero_range(x) == max_val(x) - min_val(x) = 0

normalise_mutant(x, lo, hi) == Rat(x, hi - lo)

\* line 21: (data_by_channel - min_val) / (max_val - min_val), one sample
normalise(x, lo, hi) == Rat(x - lo, hi - lo)

\* lines 13-35, as the value of normalized_raw
normalized_raw(r) ==
    LET eeg == drop_ecg(r)
        ecg_channel == pick(r, ChannelIdx(r, TRUE))
    IN  [ch_names |-> eeg.ch_names \o ecg_channel.ch_names,
         data |-> [c \in 1..Len(eeg.data) |->
                      [k \in 1..Len(eeg.data[c]) |->
                          normalise(eeg.data[c][k], min_val(eeg.data[c]), max_val(eeg.data[c]))]]
                  \o ecg_channel.data,
         onsets |-> r.onsets]

PrepFrame == UNCHANGED <<component, fs_vars, nm_vars, clean_vars, seg_vars, split_vars, hdf_vars, ps_vars, tg_vars,
                         sig_vars, at_vars>>

\* the recording a stage is given: the caller's, then what the stage before returned
PrepInput == IF returned = <<>> THEN 1 ELSE returned[1]

\* preprocess_raw line 51, crop_raw_edf lines 1-14
PrepCrop ==
    /\ component = "prep" /\ prep_pc = "crop"
    /\ ~mne_crop_raises(heap[PrepInput], crop_time, duration(heap[PrepInput]) - crop_time)
    /\ heap' = [heap EXCEPT ![PrepInput] = crop_raw_edf(heap[PrepInput])]
    /\ arg' = PrepInput /\ before' = <<heap[PrepInput]>>
    /\ returned' = <<PrepInput>>
    /\ prep_pc' = "notch"
    /\ PrepFrame

\* crop_raw_edf line 5: the recording is shorter than 2 * crop_time
PrepCropRaises ==
    /\ component = "prep" /\ prep_pc = "crop"
    /\ mne_crop_raises(heap[PrepInput], crop_time, duration(heap[PrepInput]) - crop_time)
    /\ arg' = PrepInput /\ before' = <<heap[PrepInput]>>
    /\ prep_pc' = "ValueError"
    /\ UNCHANGED <<heap, returned>>
    /\ PrepFrame

\* preprocess_raw line 53, edf_filters.notch_filter lines 5-7
PrepNotch ==
    /\ component = "prep" /\ prep_pc = "notch"
    /\ \E removed \in SUBSET (1..Len(heap[PrepInput].data)) :
          heap' = [heap EXCEPT ![PrepInput] = mne_filter(heap[PrepInput], removed)]
    /\ arg' = PrepInput /\ before' = <<heap[PrepInput]>>
    /\ returned' = <<PrepInput>>
    /\ prep_pc' = "bandpass"
    /\ PrepFrame

\* preprocess_raw lines 54-55, edf_filters.bandpass_filter lines 10-12
PrepBandpass ==
    /\ component = "prep" /\ prep_pc = "bandpass"
    /\ \E removed \in SUBSET (1..Len(heap[PrepInput].data)) :
          heap' = [heap EXCEPT ![PrepInput] = mne_filter(heap[PrepInput], removed)]
    /\ arg' = PrepInput /\ before' = <<heap[PrepInput]>>
    /\ returned' = <<PrepInput>>
    /\ prep_pc' = "sigma"
    /\ PrepFrame

\* preprocess_raw line 56, edf_filters.sigma_3_filter lines 15-63
PrepSigma ==
    /\ component = "prep" /\ prep_pc = "sigma"
    /\ heap' = Append(heap, sigma_3_filter(heap[PrepInput]))
    /\ arg' = PrepInput /\ before' = <<heap[PrepInput]>>
    /\ returned' = <<Len(heap) + 1>>
    /\ prep_pc' = "minmax"
    /\ PrepFrame

\* preprocess_raw lines 63-65, min_max_normalisation lines 5-37
PrepMinMax ==
    /\ component = "prep" /\ prep_pc = "minmax"
    /\ \A c \in 1..Len(drop_ecg(heap[PrepInput]).data) :
          ~zero_range(drop_ecg(heap[PrepInput]).data[c])
    /\ heap' = Append([heap EXCEPT ![PrepInput] = drop_ecg(heap[PrepInput])],
                      normalized_raw(heap[PrepInput]))
    /\ arg' = PrepInput /\ before' = <<heap[PrepInput]>>
    /\ returned' = <<Len(heap) + 1>>
    /\ prep_pc' = "done"
    /\ PrepFrame

\* min_max_normalisation lines 9-20: a channel has max_val = min_val
PrepMinMaxRaises ==
    /\ component = "prep" /\ prep_pc = "minmax"
    /\ \E c \in 1..Len(drop_ecg(heap[PrepInput]).data) :
          zero_range(drop_ecg(heap[PrepInput]).data[c])
    /\ heap' = [heap EXCEPT ![PrepInput] = drop_ecg(heap[PrepInput])]
    /\ arg' = PrepInput /\ before' = <<heap[PrepInput]>>
    /\ returned' = <<>>
    /\ prep_pc' = "ZeroDivisionError"
    /\ PrepFrame

PrepNext ==
    \/ PrepCrop \/ PrepCropRaises \/ PrepNotch \/ PrepBandpass \/ PrepSigma
    \/ PrepMinMax \/ PrepMinMaxRaises

\* the recordings of the model: 10 to 13 samples, one or two EEG channels
\* with or without an ECG channel, each channel a ramp, flat or a zigzag
PrepLengths == {10, 11, 12, 13}

PrepChannelNames ==
    {<<"EEG Fp1">>, <<"EEG Fp1", "EEG Fp2">>, <<"EEG Fp1", ECG>>, <<ECG, "EEG Fp1", "EEG Fp2">>}

PrepSignal(shape, n) ==
    [k \in 1..n |-> IF shape = "ramp" THEN k ELSE IF shape = "flat" THEN 4 ELSE (k % 2) * 6 - 3]

PrepOnsets == {<<>>, <<2, 6>>, <<6, 12>>}

PrepRecordings ==
    UNION {{[ch_names |-> names,
             data |-> [c \in 1..Len(names) |-> PrepSignal(shapes[c], n)],
             onsets |-> onsets] :
               shapes \in [1..Len(names) -> {"ramp", "flat", "zigzag"}],
               n \in PrepLengths, onsets \in PrepOnsets} :
           names \in PrepChannelNames}

\* preprocess_raw is called with the caller's recording, object 1
InitPrep ==
    /\ component = "prep"
    /\ \E r \in PrepRecordings : heap = <<r>>
    /\ prep_pc = "crop" /\ arg = 1 /\ before = <<>> /\ returned = <<>>
    /\ CleanIdle /\ SegIdle /\ SplitIdle /\ HdfIdle /\ PsIdle /\ TgIdle /\ SigIdle /\ AtIdle /\ NmIdle /\ FsIdle

SpecPrep == InitPrep /\ [][PrepNext]_vars

(***************************************************************************)
(* preprocess_raw: properties.                                             *)
(***************************************************************************)
\* the channels min_max_normalisation normalises: all but the ECG channel
Normalised(r) == drop_ecg(r).data

\* C23: when min_max_normalisation has run, it raised ZeroDivisionError and
\* made no recording if a normalised channel of its input had max = min;
\* otherwise it returned a new recording in which every sample of every
\* normalised channel lies in [0, 1], the samples that held the channel's
\* minimum are 0 and those that held its maximum are 1.
C23_MinMaxNormalisation ==
    (component = "prep" /\ prep_pc \in {"done", "ZeroDivisionError"}) =>
        LET x == Normalised(before[1])
        IN  IF \E c \in 1..Len(x) : zero_range(x[c])
            THEN prep_pc = "ZeroDivisionError" /\ returned = <<>> /\ Len(heap) = arg
            ELSE /\ prep_pc = "done" /\ returned = <<Len(heap)>> /\ Len(heap) = arg + 1
                 /\ \A c \in 1..Len(x) : \A k \in 1..Len(x[c]) :
                      LET y == heap[returned[1]].data[c][k]
                      IN  /\ RatLeq(Rat(0, 1), y) /\ RatLeq(y, Rat(1, 1))
                          /\ x[c][k] = min_val(x[c]) => y = Rat(0, 1)
                          /\ x[c][k] = max_val(x[c]) => y = Rat(1, 1)

\* a recording with a ramp channel was normalised: some sample lies
\* strictly between 0 and 1
C23_Witness ==
    /\ component = "prep" /\ prep_pc = "done"
    /\ \E c \in 1..Len(Normalised(before[1])) : \E k \in 1..Len(Normalised(before[1])[c]) :
          LET y == heap[returned[1]].data[c][k]
          IN  y # Rat(0, 1) /\ y # Rat(1, 1)

\* C24, as claimed: when a stage has returned, the recording it was given
\* has the samples, the channels and the annotation onsets it had when the
\* stage was called, and the recording returned is another object.
C24_CallerUntouched ==
    (component = "prep" /\ returned # <<>>) =>
        /\ heap[arg] = before[1]
        /\ returned[1] # arg

(***************************************************************************)
(* The name of a block file, from export_block over                        *)
(* split_edf_into_subblocks to process_subblocks. A file name is a         *)
(* sequence of chunks like the texts of clean_event_name; "_", " ", "("    *)
(* and ")" are chunks of their own.                                        *)
(***************************************************************************)
DigitChars == <<"0", "1", "2", "3", "4", "5", "6", "7", "8", "9">>

\* f"{n:02d}" as text
str_02d(n) == [k \in 1..Len(format_02d(n)) |-> DigitChars[format_02d(n)[k] + 1]]

\* os.path.splitext(filename)[0] of a name that ends in ".edf"
splitext(path) == SubSeq(path, 1, Len(path) - 1)

\* str.split(sep): the pieces between the separators, empty pieces included
RECURSIVE str_split(_, _)
str_split(s, sep) ==
    IF \A k \in 1..Len(s) : s[k] # sep THEN <<s>>
    ELSE LET p == CHOOSE k \in 1..Len(s) : s[k] = sep /\ \A m \in 1..(k - 1) : s[m] # sep
         IN  <<SubSeq(s, 1, p - 1)>> \o str_split(SubSeq(s, p + 1, Len(s)), sep)

\* export_block lines 212-217: f"{i + 1:02d}_{safe_name}_{base_filename}.edf"
segment_path(n, block_name, base_filename) ==
    str_02d(n) \o <<"_">> \o safe_name(block_name) \o <<"_">> \o base_filename \o <<".edf">>

\* split_edf_into_subblocks lines 272 and 291-294
block_path(filename, n) ==
    splitext(filename) \o <<"_", "block", "_">> \o str_02d(n) \o <<".edf">>

\* process_subblocks line 165: file_name.split("_")[1]
block_type_of(file_name) == str_split(file_name, "_")[2]

NmFrame == UNCHANGED <<component, fs_vars, clean_vars, seg_vars, split_vars, hdf_vars, ps_vars, tg_vars,
                       sig_vars, at_vars, prep_vars, nm_label, nm_base>>

\* export_block writes the segment file
NmExport ==
    /\ component = "naming" /\ nm_pc = "segment"
    /\ \E n \in 1..MaxAnn : nm_path' = segment_path(n, nm_label, nm_base)
    /\ nm_pc' = "block"
    /\ UNCHANGED nm_block_type
    /\ NmFrame

\* split_edf_into_subblocks writes a block file of that segment
NmSplit ==
    /\ component = "naming" /\ nm_pc = "block"
    /\ \E n \in 1..MaxBlocks : nm_path' = block_path(nm_path, n)
    /\ nm_pc' = "store"
    /\ UNCHANGED nm_block_type
    /\ NmFrame

\* process_subblocks reads the block type off the file name
NmStore ==
    /\ component = "naming" /\ nm_pc = "store"
    /\ nm_block_type' = block_type_of(nm_path)
    /\ nm_pc' = "stored"
    /\ UNCHANGED nm_path
    /\ NmFrame

NmNext == NmExport \/ NmSplit \/ NmStore

\* the labels of the model: what clean_event_name makes of the texts of at
\* most three chunks, the empty label among them
NmChunks == {"(", " ", "_", "Fonovaya zapis", "x", "y"}

NmLabels == {clean_event_name(t) : t \in SeqsUpTo(NmChunks, 3)} \ {None}

InitNaming ==
    /\ component = "naming"
    /\ nm_label \in NmLabels
    /\ nm_base \in {<<"p1">>, <<"p", "_", "1">>}
    /\ nm_pc = "segment" /\ nm_path = <<>> /\ nm_block_type = <<>>
    /\ CleanIdle /\ SegIdle /\ SplitIdle /\ HdfIdle /\ PsIdle /\ TgIdle /\ SigIdle /\ AtIdle /\ PrepIdle /\ FsIdle

SpecNaming == InitNaming /\ [][NmNext]_vars

\* C29, as claimed: the block type that process_subblocks reads off the
\* name of a block file is the canonical label of the segment the block was
\* cut from, also for labels with spaces or underscores and for the empty
\* label.
C29_BlockTypeIsLabel ==
    (component = "naming" /\ nm_pc = "stored") => nm_block_type = nm_label

(***************************************************************************)
(* The two Block Splitters side by side:                                   *)
(* EdfSegmentor.split_edf_into_subblocks and                               *)
(* block_split.split_edf_into_subblocks on the same segment, with the      *)
(* times computed as Python computes them, in IEEE double arithmetic       *)
(* (53-bit significands, round to nearest, ties to even).                  *)
(*                                                                         *)
(* The segments are sampled at 256 Hz, so n / sfreq is exact. A time is a  *)
(* whole number of units of 2^-p seconds, where 2^-p is the spacing of the *)
(* doubles around the effective block duration; every double that is not   *)
(* smaller than the block duration is such a number. A number is written   *)
(* in two limbs, hi * 2^30 + lo, because it needs up to 57 bits.           *)
(***************************************************************************)
Limb == 2 ^ 30

Big(h, l) == [hi |-> h, lo |-> l]

BigAdd(a, b) ==
    Big(a.hi + b.hi + (a.lo + b.lo) \div Limb, (a.lo + b.lo) % Limb)

\* a - b for a >= b
BigSub(a, b) ==
    IF a.lo >= b.lo THEN Big(a.hi - b.hi, a.lo - b.lo)
    ELSE Big(a.hi - b.hi - 1, a.lo + Limb - b.lo)

BigLess(a, b) == a.hi < b.hi \/ (a.hi = b.hi /\ a.lo < b.lo)

BigLeq(a, b) == ~BigLess(b, a)

BigMin(a, b) == IF BigLeq(a, b) THEN a ELSE b

\* the number of binary digits of n
RECURSIVE BitLen(_)
BitLen(n) == IF n = 0 THEN 0 ELSE 1 + BitLen(n \div 2)

\* the double nearest to a number: numbers of more than 53 bits lose their
\* last bits, halfway cases go to the even neighbour
round53(a) ==
    LET bits == IF a.hi = 0 THEN BitLen(a.lo) ELSE 30 + BitLen(a.hi)
    IN  IF bits <= 53 THEN a
        ELSE LET g    == 2 ^ (bits - 53)
                 r    == a.lo % g
                 down == Big(a.hi, a.lo - r)
                 up   == BigAdd(down, Big(0, g))
             IN  IF 2 * r < g THEN down
                 ELSE IF 2 * r > g THEN up
                 ELSE IF (a.lo \div g) % 2 = 0 THEN down ELSE up

\* a + b and a - b of two doubles
float_add(a, b) == round53(BigAdd(a, b))

float_sub(a, b) == round53(BigSub(a, b))

\* block_duration - 0.002 as Python evaluates it, for 1 s, 2 s and 5 s:
\* 0x1.fef9db22d0e56p-1, 0x1.ff7ced916872bp+0 and 0x1.3fdf3b645a1cbp+2;
\* the value is (hi * 2^30 + lo) * 2^-p
EffectiveDurations ==
    (1000 :> [hi |-> 8371830, lo |-> 841813590, p |-> 53]) @@
    (2000 :> [hi |-> 8380219, lo |-> 420906795, p |-> 52]) @@
    (5000 :> [hi |-> 5240782, lo |-> 910533067, p |-> 50])

\* EdfSegmentor line 233, block_split line 201
fs_block_duration == Big(EffectiveDurations[fs_block_ms].hi, EffectiveDurations[fs_block_ms].lo)

\* n / 256 seconds in units of 2^-p seconds: n * 2^(p - 8)
Seconds256(n) == Big(n * 2 ^ (EffectiveDurations[fs_block_ms].p - 38), 0)

\* EdfSegmentor line 269: raw.n_times / raw.info["sfreq"]
fs_total_duration == Seconds256(fs_n_times)

\* block_split line 235, and the bound of Raw.crop: raw.times[-1]
fs_last_time == Seconds256(fs_n_times - 1)

\* Raw.crop(tmin, tmax) raises ValueError
fs_crop_raises(tmin, tmax) == BigLess(tmax, tmin) \/ BigLess(fs_last_time, tmax)

FsFrame == UNCHANGED <<component, clean_vars, seg_vars, split_vars, hdf_vars, ps_vars, tg_vars,
                       sig_vars, at_vars, prep_vars, nm_vars, fs_n_times, fs_block_ms>>

\* EdfSegmentor lines 281-307: a pass of the loop that exports a block
FsSegEmit ==
    /\ component = "splitters" /\ fs_pc = "EdfSegmentor"
    /\ BigLeq(float_add(fs_current_time, fs_block_duration), fs_total_duration)
    /\ ~fs_crop_raises(fs_current_time, float_add(fs_current_time, fs_block_duration))
    /\ fs_sub_blocks' = Append(fs_sub_blocks,
                               [tmin |-> fs_current_time,
                                tmax |-> float_add(fs_current_time, fs_block_duration)])
    /\ fs_current_time' = float_add(fs_current_time, fs_block_duration)
    /\ UNCHANGED <<fs_pc, fs_subblocks>>
    /\ FsFrame

\* EdfSegmentor lines 284-288: crop raises, the loop is left
FsSegCropError ==
    /\ component = "splitters" /\ fs_pc = "EdfSegmentor"
    /\ BigLeq(float_add(fs_current_time, fs_block_duration), fs_total_duration)
    /\ fs_crop_raises(fs_current_time, float_add(fs_current_time, fs_block_duration))
    /\ fs_pc' = "block_split" /\ fs_current_time' = Big(0, 0)
    /\ UNCHANGED <<fs_sub_blocks, fs_subblocks>>
    /\ FsFrame

\* EdfSegmentor line 281: the loop condition fails
FsSegExit ==
    /\ component = "splitters" /\ fs_pc = "EdfSegmentor"
    /\ ~BigLeq(float_add(fs_current_time, fs_block_duration), fs_total_duration)
    /\ fs_pc' = "block_split" /\ fs_current_time' = Big(0, 0)
    /\ UNCHANGED <<fs_sub_blocks, fs_subblocks>>
    /\ FsFrame

\* block_split line 249: min(current_time + min_duration, total_duration)
fs_next_time == BigMin(float_add(fs_current_time, fs_block_duration), fs_last_time)

\* block_split lines 248-284: a pass of the loop that exports a block; crop
\* cannot raise here, next_time is at most raw.times[-1]
FsBsEmit ==
    /\ component = "splitters" /\ fs_pc = "block_split"
    /\ BigLess(fs_current_time, fs_last_time)
    /\ ~BigLess(float_sub(fs_next_time, fs_current_time), fs_block_duration)
    /\ ~fs_crop_raises(fs_current_time, fs_next_time)
    /\ fs_subblocks' = Append(fs_subblocks, [tmin |-> fs_current_time, tmax |-> fs_next_time])
    /\ fs_current_time' = fs_next_time
    /\ UNCHANGED <<fs_pc, fs_sub_blocks>>
    /\ FsFrame

\* block_split lines 251-256: subblock_duration < min_duration, break
FsBsTooShort ==
    /\ component = "splitters" /\ fs_pc = "block_split"
    /\ BigLess(fs_current_time, fs_last_time)
    /\ BigLess(float_sub(fs_next_time, fs_current_time), fs_block_duration)
    /\ fs_pc' = "done"
    /\ UNCHANGED <<fs_current_time, fs_sub_blocks, fs_subblocks>>
    /\ FsFrame

\* block_split line 247: the loop condition fails
FsBsExit ==
    /\ component = "splitters" /\ fs_pc = "block_split"
    /\ ~BigLess(fs_current_time, fs_last_time)
    /\ fs_pc' = "done"
    /\ UNCHANGED <<fs_current_time, fs_sub_blocks, fs_subblocks>>
    /\ FsFrame

FsNext == FsSegEmit \/ FsSegCropError \/ FsSegExit \/ FsBsEmit \/ FsBsTooShort \/ FsBsExit

\* the segments of the model: a single sample, and for each block duration
\* the segments of up to MaxSpans whole block durations (block_ms * 256 /
\* 1000 samples each) and up to two samples less or more
FsLengths(ms) ==
    {1} \cup {(k * ms * 256) \div 1000 + e : k \in 1..MaxSpans, e \in {-2, -1, 0, 1, 2}}

InitSplitters ==
    /\ component = "splitters"
    /\ fs_block_ms \in DOMAIN EffectiveDurations
    /\ fs_n_times \in FsLengths(fs_block_ms)
    /\ fs_pc = "EdfSegmentor" /\ fs_current_time = Big(0, 0)
    /\ fs_sub_blocks = <<>> /\ fs_subblocks = <<>>
    /\ CleanIdle /\ SegIdle /\ SplitIdle /\ HdfIdle /\ PsIdle /\ TgIdle /\ SigIdle /\ AtIdle /\ PrepIdle /\ NmIdle

SpecSplitters == InitSplitters /\ [][FsNext]_vars

\* C30, as claimed: when both splitters have run on the same segment with
\* the same block duration, they have emitted the same number of blocks
\* with the same start and end times.
C30_SameBlocks ==
    (component = "splitters" /\ fs_pc = "done") => fs_sub_blocks = fs_subblocks

(***************************************************************************)
(* The whole model: one of the entry points is exercised.                  *)
(***************************************************************************)
Init == InitClean \/ InitSeg \/ InitSplit \/ InitSplitAny \/ InitStore \/ InitSubblocks \/ InitTargets \/ InitSigma \/ InitAtar
          \/ InitPrep \/ InitNaming \/ InitSplitters

Next == CleanCall \/ SegNext \/ SplitNext \/ HdfNext \/ HdfCrash \/ PsNext \/ TgNext \/ SigNext \/ AtNext
          \/ PrepNext \/ NmNext \/ FsNext

Spec == Init /\ [][Next]_vars

=============================================================================
